---- MODULE Spec2Model ----
(***************************************************************************)
(* Model of the chat core of ai-chatbot-demo-kit:                          *)
(*   - the SSE endpoint GET /stream/:messageId   (server/routes/chatRoutes) *)
(*   - AIService.streamChatCompletion / buildContext (services/aiService)  *)
(*   - ChromaRAGService.retrieveRelevantDocuments (services/ragService)    *)
(* One open-stream request is followed from its arrival to the end of its  *)
(* handler.  Every action runs from one suspension point (await) of the    *)
(* code to the next; the synchronous chain of channel calls                *)
(* (res.write / res.end) is cut into one step per call so that each call   *)
(* can throw on its own.  Nothing else touches the channel, so the cut     *)
(* adds no behaviour.                                                      *)
(***************************************************************************)
EXTENDS Integers, Sequences, FiniteSets, TLC

----------------------------------------------------------------------------
(* Bounds of the model *)

\* number of fragments the generation backend may produce in one stream
MaxFragments == 2
\* number of channel calls (res.write / res.end) that may throw in one request
MaxChanFaults == 3
\* number of submit-message calls of one session
MaxSubmits == 2

----------------------------------------------------------------------------
(* Program constants *)

\* storage.getRecentMessages(conversationId, 10)
HistoryLimit == 10
\* retrieveRelevantDocuments(userMessage, 3, 0.6): result cap
RagMaxResults == 3
\* retrieveRelevantDocuments(userMessage, 3, 0.6): floor, in hundredths
RagFloor == 60

\* an absent (undefined) status of a thrown error
NoStatus == -1
\* an absent (undefined) code of a thrown error
NoCode == "undefined"

FallbackMessage ==
    "I apologize, but I was unable to generate a response. Please try rephrasing your question."

mockResponses ==
    << "I understand your question. ",
       "Based on the current context, ",
       "I can help you with that. ",
       "\n\nHere are some key points:\n",
       "1. This is a mock response for demonstration\n",
       "2. Configure OpenAI API key for real responses\n",
       "3. I'm ready to help once configured\n\n",
       "Would you like more information?" >>

RateLimitedMsg ==
    "I'm receiving too many requests right now. Please wait a moment and try again."
UnauthenticatedMsg ==
    "API authentication failed. Please contact your administrator."
BackendUnavailableMsg ==
    "The AI service is temporarily unavailable. Please try again in a few moments."
QuotaExceededMsg ==
    "API usage limit reached. Please contact your administrator."
TimeoutMsg ==
    "Request timed out. Please check your connection and try again."

\* `Unable to process your request: ${error.message || 'Unknown error'}. Please try again.`
UnknownMsg(message) ==
    "Unable to process your request: "
        \o (IF message = "" THEN "Unknown error" ELSE message)
        \o ". Please try again."

----------------------------------------------------------------------------
(* Inputs: errors the collaborators can throw *)

\* errors of the generation backend: { status?, code?, message }
BackendStatuses == {NoStatus, 400, 401, 429, 500, 503}
BackendCodes == {NoCode, "insufficient_quota", "ETIMEDOUT", "ECONNABORTED"}
BackendRawMessage == "upstream said: internal detail"

BackendErrors ==
    [status : BackendStatuses, code : BackendCodes, message : {BackendRawMessage}]
        \cup {[status |-> NoStatus, code |-> NoCode, message |-> ""]}

\* an exception of the storage collaborator (a plain Error)
StorageError ==
    [status |-> NoStatus, code |-> NoCode, message |-> "storage: connection lost"]

\* exceptions raised by the channel itself
ChanWriteError ==
    [status |-> NoStatus, code |-> NoCode, message |-> "channel: write failed"]
ChanEndError ==
    [status |-> NoStatus, code |-> NoCode, message |-> "channel: end failed"]

\* initialize() of the retrieval collaborator has failed
RetrievalError ==
    [status |-> NoStatus, code |-> NoCode,
     message |-> "Failed to connect to vector database. Ensure Chroma is running."]

NoError == [status |-> NoStatus, code |-> NoCode, message |-> "<none>"]

\* text fragments of the backend stream: delta.content, '' when absent
Fragments == {"", "Hel", "lo"}

----------------------------------------------------------------------------
(* The catch block of streamChatCompletion: the failure taxonomy *)

MapErrorCodeFirst(error) ==
    IF error.code = "insufficient_quota" THEN QuotaExceededMsg
    ELSE IF error.code = "ETIMEDOUT" \/ error.code = "ECONNABORTED" THEN TimeoutMsg
    ELSE IF error.status = 429 THEN RateLimitedMsg
    ELSE IF error.status = 401 THEN UnauthenticatedMsg
    ELSE IF error.status # NoStatus /\ error.status >= 500 THEN BackendUnavailableMsg
    ELSE UnknownMsg(error.message)

MapError(error) ==
    IF error.status = 429 THEN RateLimitedMsg
    ELSE IF error.status = 401 THEN UnauthenticatedMsg
    ELSE IF error.status # NoStatus /\ error.status >= 500 THEN BackendUnavailableMsg
    ELSE IF error.code = "insufficient_quota" THEN QuotaExceededMsg
    ELSE IF error.code = "ETIMEDOUT" \/ error.code = "ECONNABORTED" THEN TimeoutMsg
    ELSE UnknownMsg(error.message)

----------------------------------------------------------------------------
(* The storage collaborator (in-memory storage of the express example) *)

Msg(id, conv, role, content) ==
    [id |-> id, conversationId |-> conv, role |-> role, content |-> content]

\* what submit-message leaves behind (user turn, empty placeholder) in
\* conversation c1, and a conversation c2 holding no user turn
SubmittedStore ==
    << Msg(1, "c1", "user", "hello"), Msg(2, "c1", "assistant", ""),
       Msg(3, "c2", "assistant", "") >>

\* a user turn followed by HistoryLimit newer non-user messages
LongStore ==
    [i \in 1..(HistoryLimit + 1) |->
        IF i = 1 THEN Msg(1, "c1", "user", "hello")
                 ELSE Msg(i, "c1", "assistant", "earlier answer")]

SeedStores == {SubmittedStore, LongStore}

\* the conversations of the seed stores
SeedConversations == {"c1", "c2"}

\* twelve turns of conversation c1, user and assistant in alternation,
\* each with a content of its own
TwelveStore ==
    [i \in 1..(HistoryLimit + 2) |->
        Msg(i, "c1", IF i % 2 = 1 THEN "user" ELSE "assistant", "m" \o ToString(i))]

\* the same turns in a storage that also holds messages of other roles
\* (createMessage takes any role string)
MixedStore ==
    [i \in 1..(HistoryLimit + 2) |->
        Msg(i, "c1",
            IF i = 5 THEN "system" ELSE IF i = 8 THEN "tool"
            ELSE IF i % 2 = 1 THEN "user" ELSE "assistant",
            "m" \o ToString(i))]

\* storages a caller of streamChatCompletion may run over
AssembleStores == {<<>>, SubmittedStore, LongStore, TwelveStore, MixedStore}

\* conversations a caller of streamChatCompletion may name
AssembleConversations == {"c1", "c2"}

\* user messages a caller of streamChatCompletion may pass
AssembleUserMessages == {"", "hello"}

\* message ids a client may ask for; 99 is never stored
RequestIds == {2, 3, 99}

Null == [id |-> 0, conversationId |-> "", role |-> "", content |-> ""]

\* storage.getMessage(id)
getMessage(msgs, id) ==
    IF \E i \in 1..Len(msgs) : msgs[i].id = id
    THEN msgs[CHOOSE i \in 1..Len(msgs) : msgs[i].id = id]
    ELSE Null

SliceLastOffByOne(s, limit) ==
    IF Len(s) <= limit + 1 THEN s ELSE SubSeq(s, Len(s) - limit, Len(s))

\* msgs.slice(-limit)
SliceLast(s, limit) ==
    IF Len(s) <= limit THEN s ELSE SubSeq(s, Len(s) - limit + 1, Len(s))

getRecentMessagesAll(msgs, conv, limit) ==
    LET own == SelectSeq(msgs, LAMBDA m : m.conversationId = conv)
    IN  [i \in 1..Len(own) |-> [role |-> own[i].role, content |-> own[i].content]]

\* storage.getRecentMessages(conversationId, limit)
getRecentMessages(msgs, conv, limit) ==
    LET own == SelectSeq(msgs, LAMBDA m : m.conversationId = conv)
        win == SliceLast(own, limit)
    IN  [i \in 1..Len(win) |-> [role |-> win[i].role, content |-> win[i].content]]

\* [...recentMessages].reverse().find(m => m.role === 'user')
HasUserMessage(recent) == \E i \in 1..Len(recent) : recent[i].role = "user"

LastUserMessage(recent) ==
    LET last == CHOOSE i \in 1..Len(recent) :
                    /\ recent[i].role = "user"
                    /\ \A j \in (i + 1)..Len(recent) : recent[j].role # "user"
    IN  recent[last]

----------------------------------------------------------------------------
(* The retrieval collaborator: ChromaRAGService *)

NoType == "undefined"

Row(title, content, distance, type) ==
    [title |-> title, content |-> content, distance |-> distance, type |-> type]

\* ranked rows the vector database can answer with (distance in hundredths)
RowGood == Row("Refund policy", "Refunds take five days.", 20, "faq")
RowEdge == Row("", "Shipping is free.", 40, NoType)
RowWeak == Row("Careers", "We are hiring.", 55, "page")

RankedRows ==
    { <<>>, <<RowGood>>, <<RowWeak>>, <<RowGood, RowWeak>>,
      <<RowGood, RowEdge, RowWeak, RowGood>> }

\* what the vector database does during one retrieval call
ChromaOutcomes ==
    [initOk : {TRUE}, queryOk : {TRUE}, rows : RankedRows]
        \cup {[initOk |-> FALSE, queryOk |-> TRUE, rows |-> <<>>],
              [initOk |-> TRUE, queryOk |-> FALSE, rows |-> <<>>]}

\* the vector database has not been queried yet; once it has been, it
\* answers every later query of the run the same way (nothing in the
\* modelled operations adds or removes documents)
Unobserved == [initOk |-> FALSE, queryOk |-> FALSE, rows |-> <<>>]

\* collection.query({ queryTexts, nResults }): at most nResults rows
ChromaQuery(rows, nResults) ==
    IF Len(rows) <= nResults THEN rows ELSE SubSeq(rows, 1, nResults)

\* one RetrievalResult of retrieveRelevantDocuments
ToRetrievalResult(row) ==
    [title |-> IF row.title = "" THEN "Unknown" ELSE row.title,
     content |-> row.content,
     relevanceScore |-> 100 - row.distance,
     type |-> row.type]

retrieveRelevantDocumentsStrict(chroma, nResults, minRelevanceScore) ==
    IF ~chroma.initOk
    THEN [threw |-> TRUE, docs |-> <<>>]
    ELSE IF ~chroma.queryOk
    THEN [threw |-> FALSE, docs |-> <<>>]
    ELSE LET rows == ChromaQuery(chroma.rows, nResults)
             kept == SelectSeq(rows, LAMBDA r : 100 - r.distance > minRelevanceScore)
         IN  [threw |-> FALSE,
              docs |-> [i \in 1..Len(kept) |-> ToRetrievalResult(kept[i])]]

\* ChromaRAGService.retrieveRelevantDocuments(query, nResults, minRelevanceScore)
retrieveRelevantDocuments(chroma, nResults, minRelevanceScore) ==
    IF ~chroma.initOk
    THEN [threw |-> TRUE, docs |-> <<>>]
    ELSE IF ~chroma.queryOk
    THEN [threw |-> FALSE, docs |-> <<>>]
    ELSE LET rows == ChromaQuery(chroma.rows, nResults)
             kept == SelectSeq(rows, LAMBDA r : 100 - r.distance >= minRelevanceScore)
         IN  [threw |-> FALSE,
              docs |-> [i \in 1..Len(kept) |-> ToRetrievalResult(kept[i])]]

CitationsInPercent(docs) ==
    [i \in 1..Len(docs) |->
        [type |-> IF docs[i].type = NoType THEN "knowledge-base" ELSE docs[i].type,
         title |-> docs[i].title,
         relevance |-> docs[i].relevanceScore * 100]]

\* sources.push({ type, title, href, relevance }) for each returned passage
Citations(docs) ==
    [i \in 1..Len(docs) |->
        [type |-> IF docs[i].type = NoType THEN "knowledge-base" ELSE docs[i].type,
         title |-> docs[i].title,
         relevance |-> docs[i].relevanceScore]]

----------------------------------------------------------------------------
(* AIService.buildContext: the prompt segments *)

DEFAULT_SYSTEM_PROMPT ==
    "You are a helpful AI assistant. You provide clear, accurate, and helpful responses to user questions.\n"
    \o "\n## Communication Style:\n- Professional but approachable\n"
    \o "- Action-oriented with practical guidance\n- Clear and concise explanations\n"
    \o "- Use bullet points for clarity when appropriate\n"
    \o "\n## Response Format:\n1. Brief summary answering the question\n"
    \o "2. Detailed explanation or steps\n3. Additional context or examples if helpful\n"
    \o "\nWhen uncertain:\n- Admit knowledge gaps honestly\n"
    \o "- Offer alternatives or related information\n- Never guess or make up information\n"

\* the constructor's config has no systemPrompt key and updateSystemPrompt
\* was never called
NotSupplied == "(no systemPrompt key)"

\* the constructor's config has a systemPrompt key whose value is undefined
UndefinedPrompt == "undefined"

\* persona texts a deployment supplies
SupportPrompt == "You are a customer support assistant for Acme."
SalesPrompt == "You are a sales assistant for Acme."

\* this.config = { ..., systemPrompt: DEFAULT_SYSTEM_PROMPT, ...config }:
\* a key of config replaces the default, whatever its value
Constructor(configPrompt) ==
    IF configPrompt = NotSupplied THEN DEFAULT_SYSTEM_PROMPT ELSE configPrompt

Segment(role, content) == [role |-> role, content |-> content]

\* no buildContext call has finished yet
NoCall == [called |-> FALSE, failed |-> FALSE, supplied |-> NotSupplied,
           messages |-> <<>>, ragSources |-> <<>>]

\* values of a page-context payload: strings and arrays of strings
Undefined == [kind |-> "undefined", text |-> "", items |-> <<>>]
Str(text) == [kind |-> "string", text |-> text, items |-> <<>>]
Arr(items) == [kind |-> "array", text |-> "", items |-> items]

\* a page context is the list of its entries in insertion order
Entry(key, value) == [key |-> key, value |-> value]

\* pageContext[key]
Get(ctx, key) ==
    IF \E i \in 1..Len(ctx) : ctx[i].key = key
    THEN ctx[CHOOSE i \in 1..Len(ctx) : ctx[i].key = key].value
    ELSE Undefined

\* JavaScript truthiness of a value
Truthy(value) ==
    \/ value.kind = "array"
    \/ value.kind = "string" /\ value.text # ""

\* items.join(sep)
RECURSIVE Join(_, _)
Join(items, sep) ==
    IF Len(items) = 0 THEN ""
    ELSE IF Len(items) = 1 THEN items[1]
    ELSE items[1] \o sep \o Join(Tail(items), sep)

\* `${value}` in a template literal
Template(value) ==
    IF value.kind = "string" THEN value.text
    ELSE IF value.kind = "array" THEN Join(value.items, ",")
    ELSE "undefined"

Quoted(text) == "\"" \o text \o "\""

\* JSON.stringify(value), for texts that need no escaping
JSONStringify(value) ==
    IF value.kind = "string" THEN Quoted(value.text)
    ELSE IF value.kind = "array"
    THEN "[" \o Join([i \in 1..Len(value.items) |-> Quoted(value.items[i])], ",") \o "]"
    ELSE "undefined"

\* keys getPageContextPrompt does not render generically
KnownKeys ==
    {"currentPage", "page", "route", "userRole", "navigationHistory",
     "recentActions", "timestamp"}

\* pageContext.recentActions.forEach(action => ...)
RECURSIVE ActionLines(_)
ActionLines(actions) ==
    IF Len(actions) = 0 THEN ""
    ELSE "  * " \o actions[1] \o "\n" \o ActionLines(Tail(actions))

RECURSIVE CustomLinesEveryKey(_)
CustomLinesEveryKey(ctx) ==
    IF Len(ctx) = 0 THEN ""
    ELSE "- " \o ctx[1].key \o ": " \o JSONStringify(ctx[1].value) \o "\n"
         \o CustomLinesEveryKey(Tail(ctx))

\* Object.keys(pageContext).forEach(key => ...): the custom fields
RECURSIVE CustomLines(_)
CustomLines(ctx) ==
    IF Len(ctx) = 0 THEN ""
    ELSE (IF ctx[1].key \in KnownKeys THEN ""
          ELSE "- " \o ctx[1].key \o ": " \o JSONStringify(ctx[1].value) \o "\n")
         \o CustomLines(Tail(ctx))

\* AIService.getPageContextPrompt(pageContext); the arrow of the join is
\* written ->
getPageContextPrompt(ctx) ==
    LET currentPage ==
            IF Truthy(Get(ctx, "currentPage")) THEN Get(ctx, "currentPage")
            ELSE IF Truthy(Get(ctx, "page")) THEN Get(ctx, "page")
            ELSE Get(ctx, "route")
        userRole == Get(ctx, "userRole")
        navigationHistory == Get(ctx, "navigationHistory")
        recentActions == Get(ctx, "recentActions")
    IN  "Current Context:\n"
        \o (IF Truthy(currentPage)
            THEN "- Page: " \o Template(currentPage) \o "\n" ELSE "")
        \o (IF Truthy(userRole)
            THEN "- User Role: " \o Template(userRole) \o "\n" ELSE "")
        \o (IF navigationHistory.kind = "array" /\ Len(navigationHistory.items) > 0
            THEN "- Recent Pages: " \o Join(navigationHistory.items, " -> ") \o "\n"
            ELSE "")
        \o (IF recentActions.kind = "array" /\ Len(recentActions.items) > 0
            THEN "- Recent Actions:\n" \o ActionLines(recentActions.items)
            ELSE "")
        \o CustomLines(ctx)
        \o "\nBased on this context, provide relevant and specific assistance."

ContextHeadDefaultPersona(persona, ctx) ==
    <<Segment("system", DEFAULT_SYSTEM_PROMPT)>>
        \o (IF Len(ctx) > 0
            THEN <<Segment("system", getPageContextPrompt(ctx))>>
            ELSE <<>>)

\* buildContext steps 1 and 2: the persona segment, the page-context segment
ContextHead(persona, ctx) ==
    <<Segment("system", persona)>>
        \o (IF Len(ctx) > 0
            THEN <<Segment("system", getPageContextPrompt(ctx))>>
            ELSE <<>>)

\* relevantDocs.forEach((doc, idx) => { ragContext += ... })
RECURSIVE DocLines(_)
DocLines(docs) ==
    IF Len(docs) = 0 THEN ""
    ELSE "### " \o docs[1].title \o "\n"
         \o docs[1].content \o "\n"
         \o "*(Relevance: " \o ToString(docs[1].relevanceScore) \o "%)*\n\n"
         \o DocLines(Tail(docs))

\* buildContext step 3: the retrieval segment, if any passage was returned
RagSegment(docs) ==
    IF Len(docs) > 0
    THEN <<Segment("system",
                   "**Relevant Information from Knowledge Base:**\n\n"
                   \o DocLines(docs)
                   \o "\nUse this information to provide accurate guidance. Cite sources when relevant.")>>
    ELSE <<>>

HistorySegmentsAnyRole(history) ==
    [i \in 1..Len(history) |-> Segment(history[i].role, history[i].content)]

\* buildContext step 4: one segment per user/assistant message of the window
HistorySegments(history) ==
    LET kept == SelectSeq(history, LAMBDA m : m.role = "user" \/ m.role = "assistant")
    IN  [i \in 1..Len(kept) |-> Segment(kept[i].role, kept[i].content)]

\* buildContext step 5: the current user message
UserSegment(message) ==
    IF message # "" THEN <<Segment("user", message)>> ELSE <<>>

----------------------------------------------------------------------------
(* The context query parameter of open-stream *)

\* req.query.context is absent
Absent == ""

SampleContext == "{\"page\":\"/pricing\",\"plan\":\"pro\"}"

ContextParams == {Absent, "{page:", "{}", SampleContext}

\* JSON.parse(contextParam) on ContextParams
JSONParse(raw) ==
    IF raw = SampleContext
    THEN [threw |-> FALSE,
          value |-> <<Entry("page", Str("/pricing")), Entry("plan", Str("pro"))>>]
    ELSE IF raw = "{}"
    THEN [threw |-> FALSE, value |-> <<>>]
    ELSE [threw |-> TRUE, value |-> <<>>]

\* a page context with every declared field of PageContext and a custom one
FullContext ==
    << Entry("currentPage", Str("/billing")),
       Entry("route", Str("/billing/:id")),
       Entry("userRole", Str("admin")),
       Entry("navigationHistory", Arr(<<"/home", "/billing">>)),
       Entry("recentActions", Arr(<<"opened invoice", "clicked upgrade">>)),
       Entry("timestamp", Str("2024-01-01T00:00:00Z")),
       Entry("plan", Str("pro")) >>

\* declared fields with empty values, a timestamp and a custom array
SparseContext ==
    << Entry("timestamp", Str("2024-01-01T00:00:00Z")),
       Entry("userRole", Str("")),
       Entry("navigationHistory", Arr(<<>>)),
       Entry("tags", Arr(<<"a", "b">>)) >>

\* page contexts a caller of streamChatCompletion may pass
AssemblePageContexts ==
    {<<>>, JSONParse(SampleContext).value, FullContext, SparseContext}

\* config.openaiApiKey: the key is absent, empty, the placeholder of the
\* sample configuration, or a key of the generation backend
NoKey == "(no openaiApiKey)"
PlaceholderKey == "sk-your-api-key-here"
LiveKey == "sk-live-0123"

ApiKeys == {NoKey, "", PlaceholderKey, LiveKey}

HasApiKeyUnlessEmpty(apiKey) ==
    ~(apiKey = NoKey \/ apiKey = "")

\* the constructor's test of the key: this.isConfigured
HasApiKey(apiKey) ==
    ~(apiKey = NoKey \/ apiKey = "" \/ apiKey = PlaceholderKey)

\* persona texts updateSystemPrompt is called with
Prompts == {SupportPrompt, SalesPrompt}

----------------------------------------------------------------------------
(* State *)

VARIABLES
    store,               \* the storage collaborator's messages, oldest first
    openaiApiKey,        \* config.openaiApiKey
    isConfigured,        \* AIService.isConfigured
    enableRAG,           \* config.enableRAG
    ragService,          \* config.ragService is set
    conversationHistory, \* AIService.conversationHistory is set
    systemPrompt,        \* config.systemPrompt
    pc,                  \* position of the stream handler
    messageId,           \* req.params.messageId
    pageContext,         \* the parsed context parameter, {} by default
    conversationId,      \* message.conversationId
    userMessage,         \* lastUserMessage.content
    headersFlushed,      \* res.flushHeaders() has run: the channel is open
    jsonStatus,          \* status of the structured response, 0 when none
    records,             \* records accepted by res.write, in order
    writeCalls,          \* types of all res.write calls, throwing ones included
    endCalls,            \* number of res.end calls, throwing ones included
    closed,              \* a res.end call has returned
    fullResponse,        \* the handler's accumulated text
    caught,              \* message of the exception being handled
    firstThrow,          \* which step threw first: none/storage/adapter/write/end
    chanFaults,          \* channel calls that have thrown so far
    apc,                 \* position of the streamChatCompletion generator
    pending,             \* the value the generator has just yielded
    mockIdx,             \* fragments of mockResponses yielded so far
    hasContent,          \* streamChatCompletion's hasContent
    messages,            \* the prompt segments buildContext has pushed
    ragSources,          \* the citation list of buildContext
    retrieved,           \* buildContext has called the retrieval collaborator
    backendCalls,        \* calls of openai.chat.completions.create
    backendOut,          \* fragments the backend has produced, in order
    backendError,        \* the error thrown inside streamChatCompletion
    clientConnected,     \* the client still holds the connection
    pulls,               \* times the generator has run on so far
    wroteAfterEnd,       \* res.write was called after a res.end call
    contextParam,        \* req.query.context as the request carried it
    chroma,              \* what the vector database did when it was queried
    supplied,            \* the persona text most recently supplied, if any
    suppliedAtStart,     \* the value of supplied when buildContext started
    previous,            \* the result of the previous buildContext call
    conversations,       \* ids of the conversations the storage holds
    submits,             \* the submit-message calls, each with its position
    origin,              \* for each stored message, the call that created it
    idle,                \* the request that is suspended at an await, if two run
    turn                 \* which of the two requests is running

configVars == <<store, conversations, openaiApiKey, isConfigured, enableRAG, ragService,
                conversationHistory, systemPrompt, supplied>>
sessionVars == <<submits, origin>>
reqVars == <<messageId, contextParam, pageContext, conversationId, userMessage>>
callVars == <<suppliedAtStart, previous>>
chanVars == <<headersFlushed, jsonStatus, records, writeCalls, endCalls, closed,
              chanFaults, wroteAfterEnd>>
genVars == <<apc, pending, mockIdx, hasContent, messages, ragSources, chroma,
             retrieved, backendCalls, backendOut, backendError>>
pairVars == <<idle, turn>>
vars == <<configVars, sessionVars, pairVars, reqVars, callVars, chanVars, genVars,
          pc, fullResponse, caught, firstThrow, clientConnected, pulls>>

\* everything one open-stream request holds by itself: the locals of the
\* handler closure, its response object, the generator and buildContext
\* frames, and what the collaborators have answered to it
Locals ==
    [messageId |-> messageId,
     contextParam |-> contextParam,
     pageContext |-> pageContext,
     conversationId |-> conversationId,
     userMessage |-> userMessage,
     suppliedAtStart |-> suppliedAtStart,
     headersFlushed |-> headersFlushed,
     jsonStatus |-> jsonStatus,
     records |-> records,
     writeCalls |-> writeCalls,
     endCalls |-> endCalls,
     closed |-> closed,
     chanFaults |-> chanFaults,
     wroteAfterEnd |-> wroteAfterEnd,
     apc |-> apc,
     pending |-> pending,
     mockIdx |-> mockIdx,
     hasContent |-> hasContent,
     messages |-> messages,
     ragSources |-> ragSources,
     chroma |-> chroma,
     retrieved |-> retrieved,
     backendCalls |-> backendCalls,
     backendOut |-> backendOut,
     backendError |-> backendError,
     pc |-> pc,
     fullResponse |-> fullResponse,
     caught |-> caught,
     firstThrow |-> firstThrow,
     clientConnected |-> clientConnected,
     pulls |-> pulls]

\* res.headersSent
headersSent == headersFlushed \/ jsonStatus # 0

Init ==
    /\ store \in SeedStores
    /\ conversations = SeedConversations
    /\ submits = <<>>
    /\ origin = [i \in 1..Len(store) |-> 0]
    /\ openaiApiKey \in ApiKeys
    /\ isConfigured = HasApiKey(openaiApiKey)
    /\ enableRAG \in BOOLEAN
    /\ ragService \in BOOLEAN
    /\ conversationHistory \in BOOLEAN
    /\ supplied = NotSupplied
    /\ systemPrompt = Constructor(supplied)
    /\ suppliedAtStart = NotSupplied
    /\ previous = NoCall
    /\ chroma = Unobserved
    /\ contextParam = Absent
    /\ pc = "received"
    /\ messageId = 0
    /\ pageContext = <<>>
    /\ conversationId = ""
    /\ userMessage = ""
    /\ headersFlushed = FALSE
    /\ jsonStatus = 0
    /\ records = <<>>
    /\ writeCalls = <<>>
    /\ endCalls = 0
    /\ closed = FALSE
    /\ fullResponse = ""
    /\ caught = ""
    /\ firstThrow = "none"
    /\ chanFaults = 0
    /\ apc = "idle"
    /\ pending = ""
    /\ mockIdx = 0
    /\ hasContent = FALSE
    /\ messages = <<>>
    /\ ragSources = <<>>
    /\ retrieved = FALSE
    /\ backendCalls = 0
    /\ backendOut = <<>>
    /\ backendError = NoError
    /\ clientConnected = TRUE
    /\ pulls = 0
    /\ wroteAfterEnd = FALSE
    /\ idle = Locals
    /\ turn = 1

----------------------------------------------------------------------------
(* Wire records: `data: ${JSON.stringify(...)}\n\n` *)

ChunkRecord(content) == [type |-> "chunk", content |-> content]
SourcesRecord(sources) == [type |-> "sources", sources |-> sources]
DoneRecord == [type |-> "done"]
ErrorRecord(message) == [type |-> "error", message |-> message]

----------------------------------------------------------------------------
(* GET /stream/:messageId: validation *)

OpenStreamRejectsBadContext(id, raw) ==
    /\ pc = "received"
    /\ messageId' = id
    /\ contextParam' = raw
    /\ IF raw # Absent /\ JSONParse(raw).threw
       THEN /\ jsonStatus' = 400
            /\ pc' = "done"
            /\ UNCHANGED pageContext
       ELSE /\ pageContext' = IF raw # Absent THEN JSONParse(raw).value ELSE <<>>
            /\ pc' = "getMessage"
            /\ UNCHANGED jsonStatus
    /\ UNCHANGED <<configVars, sessionVars, pairVars, callVars, conversationId, userMessage,
                   headersFlushed, records, writeCalls, endCalls, closed,
                   chanFaults, wroteAfterEnd, genVars, fullResponse, caught,
                   firstThrow, clientConnected, pulls>>

\* the request arrives: messageId, and the context parameter parsed inside
\* try/catch (a parse failure leaves pageContext = {})
OpenStream(id, raw) ==
    /\ pc = "received"
    /\ messageId' = id
    /\ contextParam' = raw
    /\ pageContext' = IF raw # Absent /\ ~JSONParse(raw).threw
                      THEN JSONParse(raw).value
                      ELSE <<>>
    /\ pc' = "getMessage"
    /\ UNCHANGED <<configVars, sessionVars, pairVars, callVars, conversationId, userMessage, chanVars, genVars,
                   fullResponse, caught, firstThrow, clientConnected,
                   pulls>>

\* const message = await storage.getMessage(messageId)
GetMessage ==
    /\ pc = "getMessage"
    /\ \/ /\ caught' = StorageError.message
          /\ firstThrow' = "storage"
          /\ pc' = "outerCatch"
          /\ UNCHANGED <<conversationId, jsonStatus>>
       \/ /\ getMessage(store, messageId) = Null
          /\ jsonStatus' = 404
          /\ pc' = "done"
          /\ UNCHANGED <<conversationId, caught, firstThrow>>
       \/ /\ getMessage(store, messageId) # Null
          /\ conversationId' = getMessage(store, messageId).conversationId
          /\ pc' = "getRecent"
          /\ UNCHANGED <<jsonStatus, caught, firstThrow>>
    /\ UNCHANGED <<configVars, sessionVars, pairVars, previous, suppliedAtStart, messageId, contextParam,
                   pageContext, userMessage, headersFlushed, records,
                   writeCalls, endCalls, closed, chanFaults,
                   wroteAfterEnd, genVars, fullResponse,
                   clientConnected, pulls>>

\* where the generator first suspends once it has been started
GeneratorStart(message) ==
    IF ~isConfigured THEN "mock"
    ELSE IF message # "" /\ enableRAG /\ ragService THEN "retrieve"
    ELSE IF conversationHistory THEN "history"
    ELSE "create"

\* the segments buildContext pushes before its first await
ContextStart(message) ==
    IF ~isConfigured THEN <<>>
    ELSE ContextHead(systemPrompt, pageContext)
            \o (IF GeneratorStart(message) = "create"
                THEN UserSegment(message) ELSE <<>>)

\* the first resumption of streamChatCompletion(conversationId, message,
\* pageContext): it runs up to the first await of the generator
StartGenerator(message) ==
    /\ apc' = GeneratorStart(message)
    /\ messages' = ContextStart(message)
    /\ suppliedAtStart' = supplied
    /\ pc' = "pull"

\* const recentMessages = await storage.getRecentMessages(conversationId, 10),
\* the search for the last user message, the SSE headers, and the start of
\* the for-await loop over aiService.streamChatCompletion(...)
GetRecent ==
    /\ pc = "getRecent"
    /\ LET recentMessages == getRecentMessages(store, conversationId, HistoryLimit)
       IN  \/ /\ caught' = StorageError.message
              /\ firstThrow' = "storage"
              /\ pc' = "outerCatch"
              /\ UNCHANGED <<userMessage, jsonStatus, headersFlushed, apc,
                             messages, suppliedAtStart>>
           \/ /\ ~HasUserMessage(recentMessages)
              /\ jsonStatus' = 400
              /\ pc' = "done"
              /\ UNCHANGED <<userMessage, headersFlushed, apc, messages,
                             suppliedAtStart, caught, firstThrow>>
           \/ /\ HasUserMessage(recentMessages)
              /\ userMessage' = LastUserMessage(recentMessages).content
              /\ headersFlushed' = TRUE
              /\ StartGenerator(LastUserMessage(recentMessages).content)
              /\ UNCHANGED <<jsonStatus, caught, firstThrow>>
    /\ UNCHANGED <<configVars, sessionVars, pairVars, previous, messageId, contextParam, pageContext,
                   conversationId, records,
                   writeCalls, endCalls, closed, chanFaults, wroteAfterEnd,
                   pending, mockIdx, hasContent, ragSources, chroma, retrieved,
                   backendCalls, backendOut, backendError, fullResponse,
                   clientConnected, pulls>>

----------------------------------------------------------------------------
(* AIService.streamChatCompletion: each action is one resumption of the    *)
(* generator by the handler's for-await loop                               *)

\* the generator runs on inside a stream.next() call of the for-await loop
Pulling ==
    /\ pc = "pull"
    /\ pulls' = pulls + 1

GeneratorSwallows(error) ==
    /\ backendError' = error
    /\ caught' = MapError(error)
    /\ firstThrow' = "adapter"
    /\ apc' = "failed"
    /\ pc' = "writeDone"

\* the catch block: the generator fails with the mapped message
GeneratorThrows(error) ==
    /\ backendError' = error
    /\ caught' = MapError(error)
    /\ firstThrow' = "adapter"
    /\ apc' = "failed"
    /\ pc' = "innerCatchWrite"

YieldSourcesAlways ==
    /\ pending' = SourcesRecord(ragSources)
    /\ apc' = "afterSources"
    /\ pc' = "writeSources"

\* after the last chunk: the sources event, or the generator returns
YieldSourcesOrReturn ==
    IF Len(ragSources) > 0
    THEN /\ pending' = SourcesRecord(ragSources)
         /\ apc' = "afterSources"
         /\ pc' = "writeSources"
    ELSE /\ apc' = "returned"
         /\ pc' = "writeDone"
         /\ UNCHANGED pending

\* yield* this.mockStreamResponse(userMessage, pageContext); return
MockStream ==
    /\ Pulling
    /\ apc = "mock"
    /\ IF mockIdx < Len(mockResponses)
       THEN /\ mockIdx' = mockIdx + 1
            /\ pending' = mockResponses[mockIdx + 1]
            /\ pc' = "writeChunk"
            /\ UNCHANGED apc
       ELSE /\ apc' = "returned"
            /\ pc' = "writeDone"
            /\ UNCHANGED <<mockIdx, pending>>
    /\ UNCHANGED <<configVars, sessionVars, pairVars, callVars, reqVars, chanVars, hasContent, messages, ragSources, chroma,
                   retrieved, backendCalls, backendOut, backendError,
                   fullResponse, caught, firstThrow, clientConnected>>

BuildContextRetrieveRethrows ==
    /\ Pulling
    /\ apc = "retrieve"
    /\ \E outcome \in ChromaOutcomes :
          LET result == retrieveRelevantDocuments(outcome, RagMaxResults, RagFloor)
          IN  /\ chroma = Unobserved \/ outcome = chroma
              /\ chroma' = outcome
              /\ IF result.threw
                 THEN /\ GeneratorThrows(RetrievalError)
                      /\ UNCHANGED <<ragSources, messages>>
                 ELSE /\ ragSources' = Citations(result.docs)
                      /\ messages' = messages \o RagSegment(result.docs)
                            \o (IF conversationHistory THEN <<>>
                                ELSE UserSegment(userMessage))
                      /\ apc' = IF conversationHistory THEN "history" ELSE "create"
                      /\ UNCHANGED <<pc, backendError, caught, firstThrow>>
    /\ retrieved' = TRUE
    /\ UNCHANGED <<configVars, sessionVars, pairVars, callVars, reqVars, chanVars, pending, mockIdx,
                   hasContent, backendCalls, backendOut, fullResponse,
                   clientConnected>>

\* buildContext, step 3: await ragService.retrieveRelevantDocuments(userMessage, 3, 0.6)
\* inside try/catch (a throw leaves no segment and no citation); the
\* citation list becomes messages.ragSources; without a history source the
\* user segment follows at once
BuildContextRetrieve ==
    /\ Pulling
    /\ apc = "retrieve"
    /\ \E outcome \in ChromaOutcomes :
          LET result == retrieveRelevantDocuments(outcome, RagMaxResults, RagFloor)
              relevantDocs == IF result.threw THEN <<>> ELSE result.docs
          IN  /\ chroma = Unobserved \/ outcome = chroma
              /\ chroma' = outcome
              /\ ragSources' = Citations(relevantDocs)
              /\ messages' = messages \o RagSegment(relevantDocs)
                    \o (IF conversationHistory THEN <<>>
                        ELSE UserSegment(userMessage))
    /\ retrieved' = TRUE
    /\ apc' = IF conversationHistory THEN "history" ELSE "create"
    /\ UNCHANGED <<configVars, sessionVars, pairVars, callVars, reqVars, chanVars, pc, pending, mockIdx,
                   hasContent, backendCalls, backendOut, backendError,
                   fullResponse, caught, firstThrow, clientConnected>>

BuildContextHistoryUserFirst ==
    /\ Pulling
    /\ apc = "history"
    /\ \/ /\ GeneratorThrows(StorageError)
          /\ UNCHANGED messages
       \/ /\ apc' = "create"
          /\ messages' = messages
                \o UserSegment(userMessage)
                \o HistorySegments(
                       getRecentMessages(store, conversationId, HistoryLimit))
          /\ UNCHANGED <<pc, backendError, caught, firstThrow>>
    /\ UNCHANGED <<configVars, sessionVars, pairVars, callVars, reqVars, chanVars, pending, mockIdx,
                   hasContent, ragSources, chroma, retrieved, backendCalls,
                   backendOut, fullResponse, clientConnected>>

\* buildContext, steps 4 and 5: await this.conversationHistory
\* .getRecentMessages(conversationId, 10), the history segments, the user segment
BuildContextHistory ==
    /\ Pulling
    /\ apc = "history"
    /\ \/ /\ GeneratorThrows(StorageError)
          /\ UNCHANGED messages
       \/ /\ apc' = "create"
          /\ messages' = messages
                \o HistorySegments(
                       getRecentMessages(store, conversationId, HistoryLimit))
                \o UserSegment(userMessage)
          /\ UNCHANGED <<pc, backendError, caught, firstThrow>>
    /\ UNCHANGED <<configVars, sessionVars, pairVars, callVars, reqVars, chanVars, pending, mockIdx, hasContent,
                   ragSources, chroma, retrieved, backendCalls, backendOut,
                   fullResponse, clientConnected>>

\* const stream = await this.openai.chat.completions.create({ ..., stream: true })
CreateCompletion ==
    /\ Pulling
    /\ apc = "create"
    /\ backendCalls' = backendCalls + 1
    /\ \/ \E error \in BackendErrors : GeneratorThrows(error)
       \/ /\ apc' = "stream"
          /\ UNCHANGED <<pc, backendError, caught, firstThrow>>
    /\ UNCHANGED <<configVars, sessionVars, pairVars, callVars, reqVars, chanVars, pending, mockIdx, hasContent,
                   messages, ragSources, chroma, retrieved, backendOut, fullResponse,
                   clientConnected>>

StreamFragmentKeepsFlag ==
    /\ Pulling
    /\ apc = "stream"
    /\ Len(backendOut) < MaxFragments
    /\ \E content \in Fragments :
          /\ backendOut' = Append(backendOut, content)
          /\ IF content # ""
             THEN /\ pending' = content
                  /\ pc' = "writeChunk"
             ELSE UNCHANGED <<pending, pc>>
    /\ UNCHANGED <<configVars, sessionVars, pairVars, callVars, reqVars, chanVars, apc, mockIdx, hasContent,
                   messages, ragSources, chroma, retrieved, backendCalls, backendError,
                   fullResponse, caught, firstThrow, clientConnected>>

\* for await (const chunk of stream): the backend delivers one fragment
StreamFragment ==
    /\ Pulling
    /\ apc = "stream"
    /\ Len(backendOut) < MaxFragments
    /\ \E content \in Fragments :
          /\ backendOut' = Append(backendOut, content)
          /\ IF content # ""
             THEN /\ pending' = content
                  /\ hasContent' = TRUE
                  /\ pc' = "writeChunk"
             ELSE UNCHANGED <<pending, hasContent, pc>>
    /\ UNCHANGED <<configVars, sessionVars, pairVars, callVars, reqVars, chanVars, apc, mockIdx, messages, ragSources, chroma,
                   retrieved, backendCalls, backendError, fullResponse, caught,
                   firstThrow, clientConnected>>

\* for await (const chunk of stream): the backend stream fails
StreamFails ==
    /\ Pulling
    /\ apc = "stream"
    /\ \E error \in BackendErrors : GeneratorThrows(error)
    /\ UNCHANGED <<configVars, sessionVars, pairVars, callVars, reqVars, chanVars, pending, mockIdx, hasContent,
                   messages, ragSources, chroma, retrieved, backendCalls, backendOut,
                   fullResponse, clientConnected>>

\* the backend stream ends: fallback chunk if nothing was yielded, else
\* the sources event or the return
StreamEnds ==
    /\ Pulling
    /\ apc = "stream"
    /\ IF ~hasContent
       THEN /\ pending' = FallbackMessage
            /\ apc' = "afterFallback"
            /\ pc' = "writeChunk"
       ELSE YieldSourcesOrReturn
    /\ UNCHANGED <<configVars, sessionVars, pairVars, callVars, reqVars, chanVars, mockIdx, hasContent,
                   messages, ragSources, chroma, retrieved, backendCalls, backendOut,
                   backendError, fullResponse, caught, firstThrow,
                   clientConnected>>

\* resumed after the fallback chunk: if (ragSources.length > 0) yield sources
AfterFallback ==
    /\ Pulling
    /\ apc = "afterFallback"
    /\ YieldSourcesOrReturn
    /\ UNCHANGED <<configVars, sessionVars, pairVars, callVars, reqVars, chanVars, mockIdx, hasContent,
                   messages, ragSources, chroma, retrieved, backendCalls, backendOut,
                   backendError, fullResponse, caught, firstThrow,
                   clientConnected>>

\* resumed after the sources event: the generator returns
AfterSources ==
    /\ Pulling
    /\ apc = "afterSources"
    /\ apc' = "returned"
    /\ pc' = "writeDone"
    /\ UNCHANGED <<configVars, sessionVars, pairVars, callVars, reqVars, chanVars, pending, mockIdx, hasContent,
                   messages, ragSources, chroma, retrieved, backendCalls, backendOut,
                   backendError, fullResponse, caught, firstThrow,
                   clientConnected>>

----------------------------------------------------------------------------
(* GET /stream/:messageId: the channel *)

\* one res.write(record) call: it returns, or it throws
\* (okPc, failPc: where the handler goes next)
ResWrite(record, okPc, failPc, failSource) ==
    /\ writeCalls' = Append(writeCalls, record.type)
    /\ wroteAfterEnd' = (wroteAfterEnd \/ endCalls > 0)
    /\ \/ /\ records' = Append(records, record)
          /\ pc' = okPc
          /\ UNCHANGED <<chanFaults, caught, firstThrow>>
       \/ /\ chanFaults < MaxChanFaults
          /\ chanFaults' = chanFaults + 1
          /\ caught' = ChanWriteError.message
          /\ firstThrow' = IF firstThrow = "none" THEN failSource ELSE firstThrow
          /\ pc' = failPc
          /\ UNCHANGED records

\* one res.end() call: it returns, or it throws
ResEnd(okPc, failPc) ==
    /\ endCalls' = endCalls + 1
    /\ UNCHANGED wroteAfterEnd
    /\ \/ /\ closed' = TRUE
          /\ pc' = okPc
          /\ UNCHANGED <<chanFaults, caught, firstThrow>>
       \/ /\ chanFaults < MaxChanFaults
          /\ chanFaults' = chanFaults + 1
          /\ caught' = ChanEndError.message
          /\ firstThrow' = IF firstThrow = "none" THEN "end" ELSE firstThrow
          /\ pc' = failPc
          /\ UNCHANGED closed

\* a throw inside the for-await body closes the generator (iterator.return())
GeneratorAfterWrite == IF pc' = "pull" THEN apc ELSE "closed"

\* fullResponse += chunk; res.write(chunk record)
WriteChunk ==
    /\ pc = "writeChunk"
    /\ fullResponse' = fullResponse \o pending
    /\ ResWrite(ChunkRecord(pending), "pull", "innerCatchWrite", "write")
    /\ apc' = GeneratorAfterWrite
    /\ UNCHANGED <<configVars, sessionVars, pairVars, callVars, reqVars, headersFlushed, jsonStatus, endCalls,
                   closed, pending, mockIdx, hasContent, messages, ragSources, chroma, retrieved,
                   backendCalls, backendOut, backendError, clientConnected,
                   pulls>>

\* res.write(sources record)
WriteSources ==
    /\ pc = "writeSources"
    /\ ResWrite(SourcesRecord(pending.sources), "pull", "innerCatchWrite", "write")
    /\ apc' = GeneratorAfterWrite
    /\ UNCHANGED <<configVars, sessionVars, pairVars, callVars, reqVars, headersFlushed, jsonStatus, endCalls,
                   closed, pending, mockIdx, hasContent, messages, ragSources, chroma, retrieved,
                   backendCalls, backendOut, backendError, fullResponse,
                   clientConnected, pulls>>

\* res.write(done record) after the loop
WriteDone ==
    /\ pc = "writeDone"
    /\ ResWrite(DoneRecord, "end", "innerCatchWrite", "write")
    /\ UNCHANGED <<configVars, sessionVars, pairVars, callVars, reqVars, headersFlushed, jsonStatus, endCalls,
                   closed, genVars, fullResponse, clientConnected,
                   pulls>>

\* res.end() after the done record
End ==
    /\ pc = "end"
    /\ ResEnd("done", "innerCatchWrite")
    /\ UNCHANGED <<configVars, sessionVars, pairVars, callVars, reqVars, headersFlushed, jsonStatus, records,
                   writeCalls, genVars, fullResponse, clientConnected,
                   pulls>>

\* catch (streamError): res.write(error record with streamError.message)
InnerCatchWrite ==
    /\ pc = "innerCatchWrite"
    /\ ResWrite(ErrorRecord(caught), "innerCatchEnd", "outerCatch", "write")
    /\ UNCHANGED <<configVars, sessionVars, pairVars, callVars, reqVars, headersFlushed, jsonStatus, endCalls,
                   closed, genVars, fullResponse, clientConnected,
                   pulls>>

InnerCatchEndFallsThrough ==
    /\ pc = "innerCatchEnd"
    /\ ResEnd("writeDone", "outerCatch")
    /\ UNCHANGED <<configVars, sessionVars, pairVars, callVars, reqVars, headersFlushed, jsonStatus, records,
                   writeCalls, genVars, fullResponse, clientConnected,
                   pulls>>

\* catch (streamError): res.end()
InnerCatchEnd ==
    /\ pc = "innerCatchEnd"
    /\ ResEnd("done", "outerCatch")
    /\ UNCHANGED <<configVars, sessionVars, pairVars, callVars, reqVars, headersFlushed, jsonStatus, records,
                   writeCalls, genVars, fullResponse, clientConnected,
                   pulls>>

\* catch (error), headers not sent: res.status(500).json(...)
OuterCatchJson ==
    /\ pc = "outerCatch"
    /\ ~headersSent
    /\ jsonStatus' = 500
    /\ pc' = "done"
    /\ UNCHANGED <<configVars, sessionVars, pairVars, callVars, reqVars, headersFlushed, records, writeCalls,
                   endCalls, closed, chanFaults, wroteAfterEnd, genVars,
                   fullResponse, caught, firstThrow, clientConnected,
                   pulls>>

\* catch (error), headers sent: res.write(error record with error.message);
\* an exception here leaves the handler
OuterCatchWrite ==
    /\ pc = "outerCatch"
    /\ headersSent
    /\ ResWrite(ErrorRecord(caught), "outerCatchEnd", "crashed", "write")
    /\ UNCHANGED <<configVars, sessionVars, pairVars, callVars, reqVars, headersFlushed, jsonStatus, endCalls,
                   closed, genVars, fullResponse, clientConnected,
                   pulls>>

\* catch (error), headers sent: res.end()
OuterCatchEnd ==
    /\ pc = "outerCatchEnd"
    /\ ResEnd("done", "crashed")
    /\ UNCHANGED <<configVars, sessionVars, pairVars, callVars, reqVars, headersFlushed, jsonStatus, records,
                   writeCalls, genVars, fullResponse, clientConnected,
                   pulls>>

\* the client drops the connection while the stream is in progress;
\* the handler registers no listener for it
ClientDisconnect ==
    /\ headersFlushed
    /\ clientConnected
    /\ pc \notin {"done", "crashed"}
    /\ clientConnected' = FALSE
    /\ UNCHANGED <<configVars, sessionVars, pairVars, callVars, reqVars, chanVars, genVars, pc, fullResponse,
                   caught, firstThrow, pulls>>

Next ==
    \/ \E id \in RequestIds, raw \in ContextParams : OpenStream(id, raw)
    \/ GetMessage
    \/ GetRecent
    \/ MockStream
    \/ BuildContextRetrieve
    \/ BuildContextHistory
    \/ CreateCompletion
    \/ StreamFragment
    \/ StreamFails
    \/ StreamEnds
    \/ AfterFallback
    \/ AfterSources
    \/ WriteChunk
    \/ WriteSources
    \/ WriteDone
    \/ End
    \/ InnerCatchWrite
    \/ InnerCatchEnd
    \/ OuterCatchJson
    \/ OuterCatchWrite
    \/ OuterCatchEnd
    \/ ClientDisconnect

Spec == Init /\ [][Next]_vars

----------------------------------------------------------------------------
(* AIService.buildContext as a function of its inputs: callers invoke      *)
(* streamChatCompletion on a configured service with any conversation id,  *)
(* page context and user message, again and again with the same inputs,    *)
(* while updateSystemPrompt is called in between; each call is followed up *)
(* to the point where the prompt is handed to the backend.                 *)

InitAssemble ==
    /\ store \in AssembleStores
    /\ conversations = SeedConversations
    /\ submits = <<>>
    /\ origin = [i \in 1..Len(store) |-> 0]
    /\ openaiApiKey = LiveKey
    /\ isConfigured = HasApiKey(openaiApiKey)
    /\ enableRAG \in BOOLEAN
    /\ ragService \in BOOLEAN
    /\ conversationHistory \in BOOLEAN
    /\ supplied \in {NotSupplied, UndefinedPrompt, SupportPrompt}
    /\ systemPrompt = Constructor(supplied)
    /\ suppliedAtStart = NotSupplied
    /\ previous = NoCall
    /\ chroma = Unobserved
    /\ contextParam = Absent
    /\ pc = "call"
    /\ messageId = 0
    /\ pageContext \in AssemblePageContexts
    /\ conversationId \in AssembleConversations
    /\ userMessage \in AssembleUserMessages
    /\ headersFlushed = FALSE
    /\ jsonStatus = 0
    /\ records = <<>>
    /\ writeCalls = <<>>
    /\ endCalls = 0
    /\ closed = FALSE
    /\ fullResponse = ""
    /\ caught = ""
    /\ firstThrow = "none"
    /\ chanFaults = 0
    /\ apc = "idle"
    /\ pending = ""
    /\ mockIdx = 0
    /\ hasContent = FALSE
    /\ messages = <<>>
    /\ ragSources = <<>>
    /\ retrieved = FALSE
    /\ backendCalls = 0
    /\ backendOut = <<>>
    /\ backendError = NoError
    /\ clientConnected = TRUE
    /\ pulls = 0
    /\ wroteAfterEnd = FALSE
    /\ idle = Locals
    /\ turn = 1

\* buildContext has returned its prompt, or has thrown
ContextBuilt == pc = "pull" /\ apc = "create"
ContextFailed == pc = "innerCatchWrite" /\ apc = "failed"

\* what a finished buildContext call leaves to compare the next one with
CallResult ==
    [called |-> TRUE, failed |-> ContextFailed, supplied |-> suppliedAtStart,
     messages |-> messages, ragSources |-> ragSources]

StreamChatCompletionKeepsMessages ==
    /\ pc = "call" \/ ContextBuilt \/ ContextFailed
    /\ previous' = IF pc = "call" THEN previous ELSE CallResult
    /\ apc' = GeneratorStart(userMessage)
    /\ messages' = messages \o ContextStart(userMessage)
    /\ suppliedAtStart' = supplied
    /\ pc' = "pull"
    /\ ragSources' = <<>>
    /\ retrieved' = FALSE
    /\ backendError' = NoError
    /\ caught' = ""
    /\ firstThrow' = "none"
    /\ pulls' = 0
    /\ UNCHANGED <<configVars, sessionVars, pairVars, reqVars, chanVars, pending, mockIdx, hasContent,
                   chroma, backendCalls, backendOut, fullResponse,
                   clientConnected>>

\* a call of streamChatCompletion(conversationId, userMessage, pageContext):
\* buildContext starts with a new messages array and a new sources array
StreamChatCompletion ==
    /\ pc = "call" \/ ContextBuilt \/ ContextFailed
    /\ previous' = IF pc = "call" THEN previous ELSE CallResult
    /\ StartGenerator(userMessage)
    /\ ragSources' = <<>>
    /\ retrieved' = FALSE
    /\ backendError' = NoError
    /\ caught' = ""
    /\ firstThrow' = "none"
    /\ pulls' = 0
    /\ UNCHANGED <<configVars, sessionVars, pairVars, reqVars, chanVars, pending, mockIdx, hasContent,
                   chroma, backendCalls, backendOut, fullResponse,
                   clientConnected>>

\* updateSystemPrompt(prompt): this.config.systemPrompt = prompt
UpdateSystemPrompt(prompt) ==
    /\ systemPrompt' = prompt
    /\ supplied' = prompt
    /\ UNCHANGED <<store, conversations, openaiApiKey, isConfigured, enableRAG, ragService,
                   conversationHistory, sessionVars, pairVars, reqVars, callVars,
                   chanVars, genVars, pc, fullResponse, caught, firstThrow,
                   clientConnected, pulls>>

NextAssemble ==
    \/ StreamChatCompletion
    \/ \E prompt \in Prompts : UpdateSystemPrompt(prompt)
    \/ BuildContextRetrieve
    \/ BuildContextHistory

SpecAssemble == InitAssemble /\ [][NextAssemble]_vars

----------------------------------------------------------------------------
(* Vocabulary of the properties *)

Types(recs) == [i \in 1..Len(recs) |-> recs[i].type]

Terminal == {"done", "error"}

\* a prefix of  chunk* sources? (done|error)
EventOrder(ts) ==
    \A i \in 1..Len(ts) :
        /\ ts[i] \in {"chunk", "sources"} \cup Terminal
        /\ ts[i] \in Terminal => i = Len(ts)
        /\ ts[i] = "sources" => \A j \in (i + 1)..Len(ts) : ts[j] \in Terminal

\* a whole word of  chunk* sources? (done|error)
EventOrderComplete(ts) ==
    /\ EventOrder(ts)
    /\ Len(ts) > 0
    /\ ts[Len(ts)] \in Terminal

Count(recs, type) == Len(SelectSeq(recs, LAMBDA r : r.type = type))

ChunkContents(recs) ==
    LET chunks == SelectSeq(recs, LAMBDA r : r.type = "chunk")
    IN  [i \in 1..Len(chunks) |-> chunks[i].content]

NonEmptyFragments(frags) == SelectSeq(frags, LAMBDA f : f # "")

\* the handler has returned, or an exception has left it
HandlerOver == pc \in {"done", "crashed"}

\* the stream ran to its normal end over a channel that never threw
CompletedNormally ==
    /\ pc = "done"
    /\ apc = "returned"
    /\ chanFaults = 0

\* the generator failed and the handler finished over a channel that never threw
FailedCleanly ==
    /\ pc = "done"
    /\ apc = "failed"
    /\ chanFaults = 0

----------------------------------------------------------------------------
(* C1: for a request that passed validation and any backend output (any    *)
(* fragments, with or without a final backend failure), delivered over a   *)
(* channel whose calls do not throw, the records written form a prefix of  *)
(* chunk* sources? (done|error) at every moment and a whole word of it     *)
(* when the handler is over: one terminal record, nothing after it.        *)
C1_StreamEventOrder ==
    (headersFlushed /\ chanFaults = 0) =>
        /\ EventOrder(Types(records))
        /\ pc # "crashed"
        /\ pc = "done" => EventOrderComplete(Types(records))

\* a finished stream of two chunks, a sources record and done
C1_Witness ==
    /\ CompletedNormally
    /\ Types(records) = <<"chunk", "chunk", "sources", "done">>

----------------------------------------------------------------------------
(* C2: once the channel has been opened, res.end is called exactly once on *)
(* every exit path of the handler, the call closes the channel, and no     *)
(* res.write call follows a res.end call.                                  *)
C2_ClosedExactlyOnce ==
    /\ (headersFlushed /\ HandlerOver) => (endCalls = 1 /\ closed)
    /\ ~wroteAfterEnd

----------------------------------------------------------------------------
(* C3: when a step of the handler has thrown, then at the end of the       *)
(* handler exactly one error path has run: with the channel open, one      *)
(* error record was written and the channel closed (and no structured      *)
(* response sent); with the channel not open, a structured error response  *)
(* was sent (and no record written).                                       *)
C3_ExactlyOneErrorPath ==
    (HandlerOver /\ firstThrow # "none") =>
        IF headersFlushed
        THEN /\ Count(records, "error") = 1
             /\ closed
             /\ jsonStatus = 0
        ELSE /\ jsonStatus = 500
             /\ records = <<>>
             /\ endCalls = 0

----------------------------------------------------------------------------
(* C4: the stream headers are sent only after validation has passed.  A    *)
(* request for a message that is not stored ends in a 404 response, one    *)
(* whose conversation has no user message among its last 10 entries in a   *)
(* 400 response; in both cases the channel is never opened, no record is   *)
(* written and the streaming adapter is never started.                     *)

\* messages of a conversation, oldest first
ConversationOf(conv) == SelectSeq(store, LAMBDA m : m.conversationId = conv)

\* some user message is among the last HistoryLimit entries of the conversation
UserTurnInWindow(conv) ==
    \E i \in 1..Len(ConversationOf(conv)) :
        /\ ConversationOf(conv)[i].role = "user"
        /\ i > Len(ConversationOf(conv)) - HistoryLimit

Stored(id) == \E i \in 1..Len(store) : store[i].id = id

ValidRequest ==
    /\ Stored(messageId)
    /\ \A i \in 1..Len(store) :
          store[i].id = messageId => UserTurnInWindow(store[i].conversationId)

NothingStreamed ==
    /\ ~headersFlushed
    /\ records = <<>>
    /\ writeCalls = <<>>
    /\ endCalls = 0
    /\ apc = "idle"
    /\ backendCalls = 0
    /\ ~retrieved

C4_HeadersOnlyAfterValidation ==
    /\ headersFlushed => ValidRequest
    /\ (messageId # 0 /\ ~ValidRequest) => NothingStreamed
    /\ (pc = "done" /\ firstThrow = "none" /\ ~Stored(messageId)) => jsonStatus = 404
    /\ (pc = "done" /\ firstThrow = "none" /\ Stored(messageId) /\ ~ValidRequest)
          => jsonStatus = 400
    /\ jsonStatus # 0 => NothingStreamed

\* rejected although the conversation holds a user turn: it is older than
\* the last 10 entries
C4_Witness ==
    /\ pc = "done"
    /\ jsonStatus = 400
    /\ store = LongStore
    /\ NothingStreamed

----------------------------------------------------------------------------
(* C5: once the client has disconnected, the handler resumes the generator *)
(* no more and calls neither res.write nor res.end any more.               *)
C5_QuietAfterDisconnect ==
    [][~clientConnected =>
          /\ pulls' = pulls
          /\ writeCalls' = writeCalls
          /\ endCalls' = endCalls]_vars

----------------------------------------------------------------------------
(* C6: when the generator fails after k delivered chunks (k >= 0) and the  *)
(* channel calls do not throw, the channel carries exactly those k chunks, *)
(* then one error record, and is closed; whenever the generator has        *)
(* failed there is no done record, no sources record and no fallback       *)
(* chunk; the generation backend is called at most once per request.       *)
C6_FailureIsOneError ==
    /\ backendCalls <= 1
    /\ apc = "failed" =>
          /\ Count(records, "done") = 0
          /\ Count(records, "sources") = 0
          /\ \A i \in 1..Len(records) :
                records[i].type = "chunk" => records[i].content # FallbackMessage
    /\ FailedCleanly =>
          /\ records = [i \in 1..Len(NonEmptyFragments(backendOut)) |->
                            ChunkRecord(NonEmptyFragments(backendOut)[i])]
                        \o <<ErrorRecord(MapError(backendError))>>
          /\ closed
          /\ endCalls = 1

\* the backend failed after two delivered chunks
C6_Witness ==
    /\ FailedCleanly
    /\ backendCalls = 1
    /\ backendError \in BackendErrors
    /\ Types(records) = <<"chunk", "chunk", "error">>

----------------------------------------------------------------------------
(* C7: on a stream that completes normally, a sources record is written    *)
(* if and only if buildContext produced at least one citation; it is then  *)
(* written once, after the last chunk record and directly before the done  *)
(* record, and carries exactly the citation list.                          *)
C7_SourcesIffCitations ==
    CompletedNormally =>
        LET n == Len(records)
        IN  /\ n >= 2
            /\ records[n] = DoneRecord
            /\ Count(records, "sources") = (IF Len(ragSources) > 0 THEN 1 ELSE 0)
            /\ Len(ragSources) > 0 =>
                  /\ records[n - 1].type = "sources"
                  /\ records[n - 1].sources = ragSources
            /\ \A i \in 1..(n - 2) : records[i].type = "chunk"

\* a completed stream whose retrieval produced a citation
C7_Witness ==
    /\ CompletedNormally
    /\ retrieved
    /\ Len(ragSources) > 0
    /\ Count(records, "sources") = 1

----------------------------------------------------------------------------
(* C8: with a configured backend whose stream completes without failure,   *)
(* the chunk records are exactly the non-empty fragments in generation     *)
(* order (empty fragments give no record), at every moment of the stream   *)
(* and at its end; if no fragment was non-empty, exactly one chunk with    *)
(* the fixed apology text is written instead.  Every normally completed    *)
(* stream has at least one chunk, and the apology chunk never shares a     *)
(* stream with another chunk.                                              *)
C8_ChunksAreNonEmptyFragments ==
    /\ (isConfigured /\ chanFaults = 0 /\ pc = "pull" /\ apc = "stream") =>
          ChunkContents(records) = NonEmptyFragments(backendOut)
    /\ (isConfigured /\ CompletedNormally) =>
          ChunkContents(records) =
              (IF NonEmptyFragments(backendOut) = <<>>
               THEN <<FallbackMessage>>
               ELSE NonEmptyFragments(backendOut))
    /\ CompletedNormally => Count(records, "chunk") >= 1
    /\ (\E i \in 1..Len(records) :
            records[i].type = "chunk" /\ records[i].content = FallbackMessage)
          => Count(records, "chunk") = 1

\* an empty fragment was skipped and a non-empty one delivered
C8_Witness ==
    /\ isConfigured
    /\ CompletedNormally
    /\ backendOut = <<"", "Hel">>
    /\ ChunkContents(records) = <<"Hel">>

----------------------------------------------------------------------------
(* C9: the message the generator fails with is a function of the error's   *)
(* status and code, first match in this order: status 429, status 401,     *)
(* status >= 500, code insufficient_quota, code ETIMEDOUT or ECONNABORTED,  *)
(* otherwise unknown (also for an error with neither status nor code).     *)
(* It is one of six kinds, and only the unknown kind carries the raw       *)
(* message of the error.                                                   *)

FixedMessages ==
    {RateLimitedMsg, UnauthenticatedMsg, BackendUnavailableMsg,
     QuotaExceededMsg, TimeoutMsg}

\* no status rule applies to the error
StatusSilent(error) ==
    /\ error.status \notin {429, 401}
    /\ (error.status = NoStatus \/ error.status < 500)

Taxonomy(error, message) ==
    /\ error.status = 429 => message = RateLimitedMsg
    /\ error.status = 401 => message = UnauthenticatedMsg
    /\ (error.status # NoStatus /\ error.status >= 500)
          => message = BackendUnavailableMsg
    /\ (StatusSilent(error) /\ error.code = "insufficient_quota")
          => message = QuotaExceededMsg
    /\ (StatusSilent(error) /\ error.code \in {"ETIMEDOUT", "ECONNABORTED"})
          => message = TimeoutMsg
    /\ (StatusSilent(error)
          /\ error.code \notin {"insufficient_quota", "ETIMEDOUT", "ECONNABORTED"})
          => /\ message \notin FixedMessages
             /\ message = "Unable to process your request: "
                    \o (IF error.message = "" THEN "Unknown error" ELSE error.message)
                    \o ". Please try again."
    /\ message \in FixedMessages
          \/ (StatusSilent(error)
                /\ error.code \notin {"insufficient_quota", "ETIMEDOUT", "ECONNABORTED"})

C9_FailureTaxonomy ==
    /\ (apc = "failed" /\ pc = "innerCatchWrite") => Taxonomy(backendError, caught)
    /\ FailedCleanly =>
          /\ records[Len(records)].type = "error"
          /\ Taxonomy(backendError, records[Len(records)].message)

\* a rate-limit status wins over a quota code
C9_Witness ==
    /\ FailedCleanly
    /\ backendError.status = 429
    /\ backendError.code = "insufficient_quota"
    /\ records[Len(records)] = ErrorRecord(RateLimitedMsg)

----------------------------------------------------------------------------
(* C10: every error record written to the channel carries a message of the *)
(* generator's failure taxonomy (one of the five fixed messages, or the    *)
(* unknown-kind wrapping); the message of an exception of a collaborator   *)
(* or of the channel is never written as it is.                            *)

TaxonomyMessages ==
    FixedMessages
        \cup {UnknownMsg(error.message) : error \in BackendErrors \cup {StorageError}}

C10_OnlyTaxonomyMessages ==
    \A i \in 1..Len(records) :
        records[i].type = "error" => records[i].message \in TaxonomyMessages

----------------------------------------------------------------------------
(* C11: when the handler is over and the stream ended with a done record,  *)
(* the stored placeholder named by the request's message id has as content *)
(* the concatenation, in order, of the chunk contents written to the       *)
(* channel; when it ended with an error record the placeholder is empty.   *)
(* Nothing of the request runs after the handler is over, so the content   *)
(* at that moment is the content the placeholder will ever have.           *)
C11_PlaceholderHoldsStream ==
    /\ (HandlerOver /\ Count(records, "done") = 1) =>
          getMessage(store, messageId).content = Join(ChunkContents(records), "")
    /\ (HandlerOver /\ Count(records, "error") >= 1) =>
          getMessage(store, messageId).content = ""

----------------------------------------------------------------------------
(* POST /conversations and POST /messages over a storage that starts       *)
(* empty, with an open-stream request at any moment in between; the        *)
(* open-stream request is followed until buildContext has read the history *)
(* and the prompt is handed to the backend.                                *)

\* a field of the request body is absent (or empty: both are falsy)
Missing == ""

\* conversation ids storage.createConversation produces (`conv-${Date.now()}`)
SessionConversations == {"c1"}

\* bodies of submit-message requests; conversation c9 is never created
SubmitBodies ==
    { [conversationId |-> "c1", content |-> "hi"],
      [conversationId |-> "c1", content |-> "yo"],
      [conversationId |-> "c9", content |-> "hi"],
      [conversationId |-> Missing, content |-> "hi"],
      [conversationId |-> "c1", content |-> Missing] }

\* one submit-message call: its body, its position and its response status
SubmitCall(body, at, status) ==
    [conversationId |-> body.conversationId, content |-> body.content,
     pc |-> at, status |-> status]

InitSession ==
    /\ store = <<>>
    /\ conversations = {}
    /\ submits = <<>>
    /\ origin = <<>>
    /\ openaiApiKey = LiveKey
    /\ isConfigured = HasApiKey(openaiApiKey)
    /\ enableRAG = FALSE
    /\ ragService = FALSE
    /\ conversationHistory = TRUE
    /\ supplied = NotSupplied
    /\ systemPrompt = Constructor(supplied)
    /\ suppliedAtStart = NotSupplied
    /\ previous = NoCall
    /\ chroma = Unobserved
    /\ contextParam = Absent
    /\ pc = "received"
    /\ messageId = 0
    /\ pageContext = <<>>
    /\ conversationId = ""
    /\ userMessage = ""
    /\ headersFlushed = FALSE
    /\ jsonStatus = 0
    /\ records = <<>>
    /\ writeCalls = <<>>
    /\ endCalls = 0
    /\ closed = FALSE
    /\ fullResponse = ""
    /\ caught = ""
    /\ firstThrow = "none"
    /\ chanFaults = 0
    /\ apc = "idle"
    /\ pending = ""
    /\ mockIdx = 0
    /\ hasContent = FALSE
    /\ messages = <<>>
    /\ ragSources = <<>>
    /\ retrieved = FALSE
    /\ backendCalls = 0
    /\ backendOut = <<>>
    /\ backendError = NoError
    /\ clientConnected = TRUE
    /\ pulls = 0
    /\ wroteAfterEnd = FALSE
    /\ idle = Locals
    /\ turn = 1

\* what the session actions leave alone: the service and the open-stream request
streamVars ==
    <<openaiApiKey, isConfigured, enableRAG, ragService, conversationHistory,
      systemPrompt, supplied, reqVars, callVars, chanVars, genVars, pc, fullResponse, caught,
      firstThrow, clientConnected, pulls, pairVars>>

\* POST /conversations: await storage.createConversation(title || "New Conversation")
CreateConversation(id) ==
    /\ conversations' = conversations \cup {id}
    /\ UNCHANGED <<store, sessionVars, streamVars>>

\* storage.createMessage(conversationId, role, content) on behalf of call k
createMessage(k, conv, role, content) ==
    /\ store' = Append(store, Msg(Len(store) + 1, conv, role, content))
    /\ origin' = Append(origin, k)

\* call k moves to position at with response status
SubmitMoves(k, at, status) ==
    submits' = [submits EXCEPT ![k].pc = at, ![k].status = status]

SubmitMessageBothMissing(body) ==
    /\ Len(submits) < MaxSubmits
    /\ submits' = Append(submits,
          IF body.conversationId = Missing /\ body.content = Missing
          THEN SubmitCall(body, "done", 400)
          ELSE SubmitCall(body, "getConversation", 0))
    /\ UNCHANGED <<store, conversations, origin, streamVars>>

\* POST /messages arrives: if (!conversationId || !content) return 400
SubmitMessage(body) ==
    /\ Len(submits) < MaxSubmits
    /\ submits' = Append(submits,
          IF body.conversationId = Missing \/ body.content = Missing
          THEN SubmitCall(body, "done", 400)
          ELSE SubmitCall(body, "getConversation", 0))
    /\ UNCHANGED <<store, conversations, origin, streamVars>>

SubmitGetConversationUnchecked(k) ==
    /\ k \in 1..Len(submits)
    /\ submits[k].pc = "getConversation"
    /\ \/ SubmitMoves(k, "done", 500)
       \/ SubmitMoves(k, "createUser", 0)
    /\ UNCHANGED <<store, conversations, origin, streamVars>>

\* const conversation = await storage.getConversation(conversationId);
\* if (!conversation) return 404; a throw of the storage gives 500
SubmitGetConversation(k) ==
    /\ k \in 1..Len(submits)
    /\ submits[k].pc = "getConversation"
    /\ \/ SubmitMoves(k, "done", 500)
       \/ /\ submits[k].conversationId \notin conversations
          /\ SubmitMoves(k, "done", 404)
       \/ /\ submits[k].conversationId \in conversations
          /\ SubmitMoves(k, "createUser", 0)
    /\ UNCHANGED <<store, conversations, origin, streamVars>>

\* const userMessage = await storage.createMessage(conversationId, "user", content)
SubmitCreateUser(k) ==
    /\ k \in 1..Len(submits)
    /\ submits[k].pc = "createUser"
    /\ \/ /\ SubmitMoves(k, "done", 500)
          /\ UNCHANGED <<store, origin>>
       \/ /\ createMessage(k, submits[k].conversationId, "user", submits[k].content)
          /\ SubmitMoves(k, "createAssistant", 0)
    /\ UNCHANGED <<conversations, streamVars>>

\* const assistantMessage = await storage.createMessage(conversationId,
\* "assistant", ""); res.json({ messageId, userMessageId, streamUrl })
SubmitCreateAssistant(k) ==
    /\ k \in 1..Len(submits)
    /\ submits[k].pc = "createAssistant"
    /\ \/ /\ SubmitMoves(k, "done", 500)
          /\ UNCHANGED <<store, origin>>
       \/ /\ createMessage(k, submits[k].conversationId, "assistant", "")
          /\ SubmitMoves(k, "done", 200)
    /\ UNCHANGED <<conversations, streamVars>>

NextSession ==
    \/ \E id \in SessionConversations : CreateConversation(id)
    \/ \E body \in SubmitBodies : SubmitMessage(body)
    \/ \E k \in 1..MaxSubmits : SubmitGetConversation(k)
    \/ \E k \in 1..MaxSubmits : SubmitCreateUser(k)
    \/ \E k \in 1..MaxSubmits : SubmitCreateAssistant(k)
    \/ \E id \in RequestIds : OpenStream(id, Absent)
    \/ GetMessage
    \/ GetRecent
    \/ BuildContextHistory
    \/ OuterCatchJson

SpecSession == InitSession /\ [][NextSession]_vars

----------------------------------------------------------------------------
(* Vocabulary of the properties of buildContext *)

\* the persona text in force when buildContext started
PersonaAtStart == Constructor(suppliedAtStart)

\* segments before the history: persona, page context, retrieval
HeadLen ==
    1 + (IF Len(pageContext) > 0 THEN 1 ELSE 0)
      + (IF Len(ragSources) > 0 THEN 1 ELSE 0)

\* the history segments of a built prompt
HistoryPart ==
    SubSeq(messages, HeadLen + 1,
           Len(messages) - (IF userMessage # "" THEN 1 ELSE 0))

\* the last n entries of s (all of s if it is shorter)
MostRecent(s, n) ==
    LET k == IF Len(s) < n THEN Len(s) ELSE n
    IN  [i \in 1..k |-> s[Len(s) - k + i]]

ChatRoles == {"user", "assistant"}

AsSegments(msgs) == [i \in 1..Len(msgs) |-> Segment(msgs[i].role, msgs[i].content)]

\* the user and assistant messages of a list of stored messages
ChatTurns(msgs) == SelectSeq(msgs, LAMBDA m : m.role \in ChatRoles)

----------------------------------------------------------------------------
(* C12 as stated: a built prompt has at most 10 history segments and at    *)
(* most 14 segments in all, and for a conversation of more than 10 stored  *)
(* messages (history source configured) the history segments are the 10    *)
(* most recent user/assistant messages of the conversation, oldest first.  *)
C12_TenMostRecentTurns ==
    /\ Len(messages) <= HistoryLimit + 4
    /\ ContextBuilt =>
          /\ Len(HistoryPart) <= HistoryLimit
          /\ (conversationHistory
                /\ Len(ConversationOf(conversationId)) > HistoryLimit) =>
                HistoryPart = AsSegments(MostRecent(
                    ChatTurns(ConversationOf(conversationId)), HistoryLimit))

(* C12, amended: a built prompt has at most 10 history segments and at     *)
(* most 14 segments in all; with a history source configured the history   *)
(* segments are the user and assistant messages among the 10 most recent   *)
(* stored messages of the conversation, oldest first (exactly 10 when the  *)
(* conversation has more than 10 messages and these 10 are all user or     *)
(* assistant messages); without a history source there is none.            *)
C12_HistoryWindow ==
    /\ Len(messages) <= HistoryLimit + 4
    /\ ContextBuilt =>
          /\ Len(HistoryPart) <= HistoryLimit
          /\ HistoryPart =
                (IF conversationHistory
                 THEN AsSegments(ChatTurns(MostRecent(
                          ConversationOf(conversationId), HistoryLimit)))
                 ELSE <<>>)
          /\ (conversationHistory
                /\ Len(ConversationOf(conversationId)) > HistoryLimit
                /\ \A i \in 1..Len(store) : store[i].role \in ChatRoles) =>
                Len(HistoryPart) = HistoryLimit

\* a prompt of 14 segments over a conversation of twelve turns
C12_Witness ==
    /\ ContextBuilt
    /\ store = TwelveStore
    /\ Len(messages) = HistoryLimit + 4
    /\ HistoryPart[1] = Segment("user", "m3")
    /\ HistoryPart[HistoryLimit] = Segment("assistant", "m12")

----------------------------------------------------------------------------
(* C13 as stated: for every input, the empty user message included, the    *)
(* first segment of a built prompt is the persona segment and the last is  *)
(* a user segment holding exactly the current user message.                *)
C13_PersonaFirstUserLast ==
    ContextBuilt =>
        /\ messages[1] = Segment("system", PersonaAtStart)
        /\ messages[Len(messages)] = Segment("user", userMessage)

(* C13, amended: for every input the first segment of a built prompt is    *)
(* the persona segment; for a non-empty user message the last segment is a *)
(* user segment holding exactly that message; for an empty user message no *)
(* current-turn segment is appended, the prompt ends with its history (or  *)
(* its head).                                                              *)
C13_PersonaFirstUserLastIfAny ==
    ContextBuilt =>
        /\ messages[1] = Segment("system", PersonaAtStart)
        /\ userMessage # "" =>
              messages[Len(messages)] = Segment("user", userMessage)
        /\ userMessage = "" =>
              Len(messages) = HeadLen
                  + (IF conversationHistory
                     THEN Len(ChatTurns(MostRecent(
                              ConversationOf(conversationId), HistoryLimit)))
                     ELSE 0)

\* no history, no page context, no retrieval: persona and user message only
C13_Witness ==
    /\ ContextBuilt
    /\ store = <<>>
    /\ conversationHistory
    /\ pageContext = <<>>
    /\ messages = <<Segment("system", PersonaAtStart), Segment("user", "hello")>>

----------------------------------------------------------------------------
(* C14: when buildContext has queried the retrieval collaborator (floor    *)
(* 0.6, at most 3 candidates) and the query answered: if every candidate   *)
(* is below the floor the prompt has no retrieval segment and the citation *)
(* list is empty; otherwise the prompt has exactly one retrieval segment,  *)
(* and it and the citation list hold exactly the candidates at or above    *)
(* the floor, in rank order.                                               *)

\* the candidate passages of the query, and those at or above the floor
Candidates ==
    [i \in 1..(IF Len(chroma.rows) < RagMaxResults
               THEN Len(chroma.rows) ELSE RagMaxResults) |-> chroma.rows[i]]

Passing == SelectSeq(Candidates, LAMBDA r : 100 - r.distance >= RagFloor)

\* system segments of the prompt besides persona and page context
RetrievalSegments ==
    SelectSeq(SubSeq(messages, 2 + (IF Len(pageContext) > 0 THEN 1 ELSE 0),
                     Len(messages)),
              LAMBDA m : m.role = "system")

C14_RetrievalFloor ==
    (retrieved /\ chroma.initOk /\ chroma.queryOk) =>
        /\ Len(ragSources) = Len(Passing)
        /\ \A i \in 1..Len(Passing) :
              /\ ragSources[i].title =
                    (IF Passing[i].title = "" THEN "Unknown" ELSE Passing[i].title)
              /\ ragSources[i].relevance = 100 - Passing[i].distance
              /\ ragSources[i].relevance >= RagFloor
        /\ Passing = <<>> => RetrievalSegments = <<>>
        /\ Passing # <<>> =>
              RetrievalSegments =
                  RagSegment([i \in 1..Len(Passing) |-> ToRetrievalResult(Passing[i])])

\* three candidates, one of them exactly at the floor, one below it
C14_Witness ==
    /\ ContextBuilt
    /\ retrieved
    /\ Candidates = <<RowGood, RowEdge, RowWeak>>
    /\ Len(ragSources) = 2
    /\ ragSources[2].relevance = RagFloor
    /\ Len(RetrievalSegments) = 1

----------------------------------------------------------------------------
----------------------------------------------------------------------------
----------------------------------------------------------------------------
(* C15: when the retrieval call of buildContext throws (the collaborator   *)
(* fails to initialise), the prompt and the citation list are those of a   *)
(* call whose retrieval returned no passage: the prompt without retrieval  *)
(* segment and the empty list.  The generator goes on to the backend: if   *)
(* it fails, it fails with an error of the backend or of the storage, and  *)
(* with neither of these and a channel that does not throw the stream ends *)
(* with done and carries no error record.                                  *)

\* the retrieval call threw
RetrievalThrew == retrieved /\ ~chroma.initOk

\* the retrieval call returned the empty list
RetrievalEmpty ==
    retrieved /\ chroma.initOk /\ (~chroma.queryOk \/ Passing = <<>>)

\* the prompt buildContext returns when no passage was retrieved
PromptWithoutRetrieval ==
    <<Segment("system", PersonaAtStart)>>
        \o (IF Len(pageContext) > 0
            THEN <<Segment("system", getPageContextPrompt(pageContext))>>
            ELSE <<>>)
        \o (IF conversationHistory
            THEN AsSegments(ChatTurns(MostRecent(
                     ConversationOf(conversationId), HistoryLimit)))
            ELSE <<>>)
        \o (IF userMessage # "" THEN <<Segment("user", userMessage)>> ELSE <<>>)

\* buildContext has returned to streamChatCompletion
PromptHandedOver ==
    \/ apc \in {"create", "stream", "afterFallback", "afterSources", "returned",
                "closed"}
    \/ apc = "failed" /\ backendError \in BackendErrors

C15_RetrievalFailureSwallowed ==
    /\ (RetrievalThrew \/ RetrievalEmpty) =>
          /\ ragSources = <<>>
          /\ PromptHandedOver => messages = PromptWithoutRetrieval
    /\ RetrievalThrew =>
          /\ apc = "failed" => backendError \in BackendErrors \cup {StorageError}
          /\ apc # "failed" =>
                /\ backendError = NoError
                /\ chanFaults = 0 => Count(records, "error") = 0
          /\ (HandlerOver /\ apc # "failed" /\ chanFaults = 0) =>
                /\ CompletedNormally
                /\ records[Len(records)] = DoneRecord
                /\ Count(records, "sources") = 0

\* the collaborator failed to initialise and the stream completed
C15_Witness ==
    /\ CompletedNormally
    /\ RetrievalThrew
    /\ messages = PromptWithoutRetrieval
    /\ Types(records) = <<"chunk", "chunk", "done">>

----------------------------------------------------------------------------
(* C18: a request whose context parameter is not valid JSON is processed   *)
(* as one with an empty page context: it is answered with an error status  *)
(* only if the request is invalid for another reason or the storage threw, *)
(* and it ends with done when nothing fails; and for an empty page context *)
(* (parameter absent, not valid JSON, or an empty object) the prompt has   *)
(* no page-context segment: its system segments are the persona segment    *)
(* and, if there are citations, the retrieval segment.                     *)

InvalidJSON(raw) == raw # Absent /\ JSONParse(raw).threw

SystemSegments == SelectSeq(messages, LAMBDA m : m.role = "system")

C18_BadContextIsEmptyContext ==
    /\ (pc # "received" /\ (contextParam = Absent \/ InvalidJSON(contextParam)))
          => pageContext = <<>>
    /\ (InvalidJSON(contextParam) /\ ValidRequest /\ firstThrow = "none")
          => jsonStatus = 0
    /\ (InvalidJSON(contextParam) /\ ValidRequest /\ firstThrow = "none"
          /\ pc \notin {"received", "getMessage", "getRecent"})
          => headersFlushed
    /\ (InvalidJSON(contextParam) /\ HandlerOver /\ headersFlushed
          /\ firstThrow = "none")
          => (CompletedNormally /\ records[Len(records)] = DoneRecord)
    /\ (pageContext = <<>> /\ Len(messages) > 0) =>
          /\ messages[1] = Segment("system", PersonaAtStart)
          /\ Len(SystemSegments) = 1 + (IF Len(ragSources) > 0 THEN 1 ELSE 0)
          /\ \A i \in 1..Len(messages) :
                messages[i].role = "system" =>
                    /\ messages[i].content # ""
                    /\ messages[i].content # getPageContextPrompt(<<>>)

\* a request with a broken context parameter has streamed to its end over
\* a prompt whose only system segment is the persona
C18_Witness ==
    /\ CompletedNormally
    /\ isConfigured
    /\ contextParam = "{page:"
    /\ Len(messages) >= 2
    /\ Len(SystemSegments) = 1
    /\ Count(records, "done") = 1

----------------------------------------------------------------------------
(* Vocabulary of the properties of submit-message *)

\* stored messages that call k has created
CreatedBy(k) == {i \in 1..Len(store) : origin[i] = k}

\* call k has been answered
Answered(k) == submits[k].pc = "done"

----------------------------------------------------------------------------
(* C16: a submit-message call whose conversationId or content is missing   *)
(* is answered 400, and one that names a conversation which does not exist *)
(* is answered 404 (unless the storage throws while looking for it), and   *)
(* only such a call is; a call answered 400 or 404 creates no message, and *)
(* the step that answers 400 or 404 leaves the storage as it is.           *)
C16_RejectedCreatesNothing ==
    /\ [](\A k \in 1..Len(submits) :
            /\ (submits[k].conversationId = Missing \/ submits[k].content = Missing)
                  => (Answered(k) /\ submits[k].status = 400)
            /\ (Answered(k)
                  /\ submits[k].conversationId # Missing
                  /\ submits[k].content # Missing
                  /\ submits[k].conversationId \notin conversations)
                  => submits[k].status \in {404, 500}
            /\ submits[k].status \in {400, 404} => CreatedBy(k) = {})
    /\ [][\A k \in 1..Len(submits') :
              (/\ submits'[k].status \in {400, 404}
               /\ (k > Len(submits) \/ submits[k].status = 0))
              => /\ UNCHANGED <<store, conversations>>
                 /\ submits'[k].status = 404 =>
                       submits'[k].conversationId \notin conversations]_vars

\* a call without content was answered 400 and a call for the conversation
\* that does not exist 404, while another conversation exists
C16_Witness ==
    /\ Len(submits) = 2
    /\ submits[1] = SubmitCall([conversationId |-> "c1", content |-> Missing], "done", 400)
    /\ submits[2] = SubmitCall([conversationId |-> "c9", content |-> "hi"], "done", 404)
    /\ conversations = {"c1"}
    /\ store = <<>>

----------------------------------------------------------------------------
(* C17: in every state of a session of create-conversation, submit-message *)
(* and open-stream requests in any interleaving: every stored message      *)
(* belongs to a conversation that exists; its role is user or assistant; a *)
(* user message has non-empty content; an assistant message has empty      *)
(* content and follows the user message of the submit-message call that    *)
(* created it, in the same conversation; every call creates at most one    *)
(* user and one assistant message.                                         *)
C17_StoredMessagesWellFormed ==
    /\ Len(origin) = Len(store)
    /\ \A i \in 1..Len(store) :
          /\ store[i].conversationId \in conversations
          /\ store[i].role \in ChatRoles
          /\ origin[i] \in 1..Len(submits)
          /\ store[i].conversationId = submits[origin[i]].conversationId
          /\ store[i].role = "user" =>
                /\ store[i].content # ""
                /\ store[i].content = submits[origin[i]].content
          /\ store[i].role = "assistant" =>
                /\ store[i].content = ""
                /\ \E j \in 1..(i - 1) :
                      /\ origin[j] = origin[i]
                      /\ store[j].role = "user"
                      /\ store[j].conversationId = store[i].conversationId
          /\ \A j \in 1..Len(store) :
                (origin[j] = origin[i] /\ store[j].role = store[i].role) => j = i

\* two calls interleaved: both user messages stored before both placeholders,
\* while an open-stream request has read the history
C17_Witness ==
    /\ Len(store) = 4
    /\ origin = <<1, 2, 1, 2>>
    /\ submits[1].status = 200
    /\ submits[2].status = 200
    /\ apc = "create"

----------------------------------------------------------------------------
(* C30: a backend failure whose code is insufficient_quota is reported to  *)
(* the client with the quota_exceeded message, and one whose code is       *)
(* ETIMEDOUT or ECONNABORTED with the timeout message, whatever status     *)
(* comes with the code: both as the message the generator throws and as    *)
(* the message of the error record that ends a cleanly failed stream.      *)

CodeMessage(error, message) ==
    /\ error.code = "insufficient_quota" => message = QuotaExceededMsg
    /\ error.code \in {"ETIMEDOUT", "ECONNABORTED"} => message = TimeoutMsg

C30_CodeDecidesMessage ==
    /\ (apc = "failed" /\ pc = "innerCatchWrite") => CodeMessage(backendError, caught)
    /\ FailedCleanly =>
          /\ records[Len(records)].type = "error"
          /\ CodeMessage(backendError, records[Len(records)].message)

----------------------------------------------------------------------------
(* C29: every submit-message call that has been answered has either       *)
(* created both its user message and its assistant placeholder and was     *)
(* answered with success (200), or has created no message and was answered *)
(* with an error status; this also when the storage throws at the first or *)
(* at the second createMessage.                                            *)
C29_SubmitAllOrNothing ==
    \A k \in 1..Len(submits) :
        Answered(k) =>
            \/ /\ submits[k].status = 200
               /\ \E i, j \in CreatedBy(k) :
                     /\ i < j
                     /\ CreatedBy(k) = {i, j}
                     /\ store[i].role = "user"
                     /\ store[j].role = "assistant"
            \/ /\ submits[k].status \in {400, 404, 500}
               /\ CreatedBy(k) = {}

----------------------------------------------------------------------------
(* C27: whatever the interleaving of the submit-message calls on one       *)
(* conversation, an open-stream request for an assistant placeholder that  *)
(* has started the generator passes to it the content of the user message  *)
(* that the same submit-message call created, the call that created the    *)
(* placeholder, not the content submitted by another call.                 *)

\* the request names a stored assistant placeholder and has started the generator
StreamsPlaceholder ==
    /\ headersFlushed
    /\ messageId \in 1..Len(store)
    /\ store[messageId].role = "assistant"

C27_AnswersOwnUserMessage ==
    StreamsPlaceholder => userMessage = submits[origin[messageId]].content

----------------------------------------------------------------------------
(* C28: in the flow submit-message, then open-stream for the placeholder   *)
(* (the service reads its history from the same storage), the prompt that  *)
(* is handed to the backend ends with the user segment of the answered     *)
(* message; when that content was submitted once, the prompt holds exactly *)
(* one user segment with it; and the prompt holds no segment for the empty *)
(* placeholder, that is no assistant segment with empty content.           *)

\* positions of the prompt that hold the segment (role, content)
SegmentsOf(role, content) ==
    {i \in 1..Len(messages) : messages[i] = Segment(role, content)}

\* stored user messages with this content
SubmittedAs(content) ==
    {i \in 1..Len(store) : store[i].role = "user" /\ store[i].content = content}

C28_AnsweredOnceNoPlaceholder ==
    (StreamsPlaceholder /\ pc = "pull" /\ apc = "create") =>
        /\ Len(messages) > 0
        /\ messages[Len(messages)] = Segment("user", userMessage)
        /\ Cardinality(SubmittedAs(userMessage)) = 1 =>
              Cardinality(SegmentsOf("user", userMessage)) = 1
        /\ SegmentsOf("assistant", "") = {}

----------------------------------------------------------------------------
(* C26: with a history source configured, the history part of a built      *)
(* prompt holds one segment for each message of the fetched window (the 10 *)
(* most recent stored messages of the conversation) whose role is user or  *)
(* assistant, with the role and the content of that message, at the rank   *)
(* the message has among the user and assistant messages of the window;    *)
(* a message of another role has no segment, and the part holds nothing    *)
(* else.                                                                   *)

\* the window buildContext fetches
FetchedWindow == MostRecent(ConversationOf(conversationId), HistoryLimit)

\* how many of the first j messages of window have role user or assistant
ChatRank(window, j) ==
    Cardinality({i \in 1..j : window[i].role \in ChatRoles})

C26_HistoryFollowsWindow ==
    (ContextBuilt /\ conversationHistory) =>
        /\ Len(HistoryPart) = ChatRank(FetchedWindow, Len(FetchedWindow))
        /\ \A j \in 1..Len(FetchedWindow) :
              FetchedWindow[j].role \in ChatRoles =>
                  HistoryPart[ChatRank(FetchedWindow, j)]
                      = Segment(FetchedWindow[j].role, FetchedWindow[j].content)
        /\ \A i \in 1..Len(HistoryPart) : HistoryPart[i].role \in ChatRoles

\* a window of ten messages with a system and a tool message in it
C26_Witness ==
    /\ ContextBuilt
    /\ conversationHistory
    /\ store = MixedStore
    /\ conversationId = "c1"
    /\ Len(HistoryPart) = HistoryLimit - 2
    /\ HistoryPart[2] = Segment("assistant", "m4")
    /\ HistoryPart[3] = Segment("assistant", "m6")
    /\ HistoryPart[5] = Segment("user", "m9")

----------------------------------------------------------------------------
(* C25: when buildContext has called the retrieval collaborator and it has *)
(* returned a non-empty list of passages, the citation list has one record *)
(* for each returned passage, in the order returned, with the title and    *)
(* the relevance score of that passage as returned; when retrieval is      *)
(* disabled or no collaborator is configured, the collaborator is never    *)
(* called and the citation list is empty.                                  *)

\* what the retrieval collaborator returned to buildContext
ReturnedPassages ==
    retrieveRelevantDocuments(chroma, RagMaxResults, RagFloor).docs

C25_CitationPerPassage ==
    /\ (retrieved /\ chroma # Unobserved /\ ReturnedPassages # <<>>) =>
          /\ Len(ragSources) = Len(ReturnedPassages)
          /\ \A i \in 1..Len(ReturnedPassages) :
                /\ ragSources[i].title = ReturnedPassages[i].title
                /\ ragSources[i].relevance = ReturnedPassages[i].relevanceScore
    /\ ~(enableRAG /\ ragService) =>
          /\ ~retrieved
          /\ chroma = Unobserved
          /\ ragSources = <<>>

\* two passages returned, of relevance 0.80 and 0.60, cited in that order
C25_Witness ==
    /\ ContextBuilt
    /\ retrieved
    /\ Len(ReturnedPassages) = 2
    /\ ragSources[1].title = "Refund policy"
    /\ ragSources[1].relevance = 80
    /\ ragSources[2].title = "Unknown"
    /\ ragSources[2].relevance = 60

----------------------------------------------------------------------------
(* Vocabulary of the properties of the page-context segment: the segment   *)
(* as a list of lines, joined by line ends.                                *)

RecognisedKeys ==
    {"currentPage", "page", "route", "userRole", "navigationHistory", "recentActions"}

\* a value that is supplied and not empty (an array counts by its items)
NonEmptyValue(value) ==
    \/ value.kind = "string" /\ value.text # ""
    \/ value.kind = "array" /\ Len(value.items) > 0

\* the lines with fixed labels: one page line, the role, the pages, the actions
LabelledLines(ctx) ==
    LET pageKeys == SelectSeq(<<"currentPage", "page", "route">>,
                              LAMBDA k : NonEmptyValue(Get(ctx, k)))
    IN  (IF pageKeys # <<>>
         THEN <<"- Page: " \o Get(ctx, pageKeys[1]).text>> ELSE <<>>)
        \o (IF NonEmptyValue(Get(ctx, "userRole"))
            THEN <<"- User Role: " \o Get(ctx, "userRole").text>> ELSE <<>>)
        \o (IF NonEmptyValue(Get(ctx, "navigationHistory"))
            THEN <<"- Recent Pages: "
                     \o Join(Get(ctx, "navigationHistory").items, " -> ")>>
            ELSE <<>>)
        \o (IF NonEmptyValue(Get(ctx, "recentActions"))
            THEN <<"- Recent Actions:">>
                 \o [i \in 1..Len(Get(ctx, "recentActions").items) |->
                        "  * " \o Get(ctx, "recentActions").items[i]]
            ELSE <<>>)

\* one generic line for every key outside the recognised and the unrendered keys
GenericLines(ctx, unrendered) ==
    LET others == SelectSeq(ctx, LAMBDA e : e.key \notin RecognisedKeys \cup unrendered)
    IN  [i \in 1..Len(others) |->
            "- " \o others[i].key \o ": " \o JSONStringify(others[i].value)]

\* the text of a page-context segment that renders no key of unrendered
PageSegmentText(ctx, unrendered) ==
    Join(<<"Current Context:">> \o LabelledLines(ctx) \o GenericLines(ctx, unrendered)
            \o <<"", "Based on this context, provide relevant and specific assistance.">>,
         "\n")

\* a prompt has been started for a non-empty page context
HasPageSegment == Len(messages) >= 2 /\ Len(pageContext) > 0

(* C24 as stated: for a non-empty page context the page-context segment    *)
(* renders every supplied key: the recognised keys with their fixed labels *)
(* (currentPage/page/route as one page line) and every other key of the    *)
(* payload as one generic line "key: JSON(value)"; no key is left out.     *)
C24_EveryKeyRendered ==
    HasPageSegment => messages[2] = Segment("system", PageSegmentText(pageContext, {}))

(* C24, amended: for a non-empty page context the page-context segment     *)
(* renders the recognised keys that have a non-empty value with their      *)
(* fixed labels (the first non-empty of currentPage, page, route as one    *)
(* page line) and every other key except timestamp as one generic line     *)
(* "key: JSON(value)", in the order of the payload; the key timestamp is   *)
(* never rendered, and a recognised key with an empty value has no line.   *)
C24_EveryKeyButTimestamp ==
    HasPageSegment =>
        messages[2] = Segment("system", PageSegmentText(pageContext, {"timestamp"}))

\* a built prompt for a payload with all declared fields, timestamp included
C24_Witness ==
    /\ ContextBuilt
    /\ pageContext = FullContext
    /\ NonEmptyValue(Get(pageContext, "timestamp"))
    /\ messages[2].role = "system"
    /\ messages[2].content # PageSegmentText(pageContext, {})

----------------------------------------------------------------------------
(* C23: when the service was constructed without a usable key (the key is  *)
(* absent, empty or the placeholder), then for every stored conversation,  *)
(* answered user message and page context: the generation backend is never *)
(* called and no prompt is built; the chunks delivered are, in order, the  *)
(* first canned fragments; and over a channel that never throws the        *)
(* records are chunk records only, until the stream ends with all the      *)
(* canned fragments followed by done.                                      *)

Unconfigured == openaiApiKey \in {NoKey, "", PlaceholderKey}

\* the first n entries of s
FirstOf(s, n) == [i \in 1..n |-> s[i]]

C23_MockIsFixed ==
    Unconfigured =>
        /\ backendCalls = 0
        /\ ~retrieved
        /\ messages = <<>>
        /\ Len(ChunkContents(records)) <= Len(mockResponses)
        /\ ChunkContents(records)
              = FirstOf(mockResponses, Len(ChunkContents(records)))
        /\ chanFaults = 0 =>
              /\ EventOrder(Types(records))
              /\ Count(records, "sources") = 0
              /\ Count(records, "error") = 0
        /\ CompletedNormally =>
              records = [i \in 1..Len(mockResponses) |-> ChunkRecord(mockResponses[i])]
                            \o <<DoneRecord>>

\* the placeholder key, a page context and a stored conversation: the whole
\* canned answer has been delivered
C23_Witness ==
    /\ openaiApiKey = PlaceholderKey
    /\ CompletedNormally
    /\ Len(pageContext) > 0
    /\ Count(records, "chunk") = Len(mockResponses)
    /\ records[Len(records)] = DoneRecord

----------------------------------------------------------------------------
(* C22: an open-stream request ends in a terminated state: when the        *)
(* handler is over (every storage, retrieval and backend call has returned *)
(* or thrown, and the backend stream has ended or failed), either a        *)
(* structured error response has been sent and no channel was opened, or   *)
(* the channel was opened and has been closed.                             *)

\* a structured (non-streamed) error response was sent
Rejected == jsonStatus # 0 /\ ~headersFlushed

\* the event channel was opened and closed
OpenedAndClosed == headersFlushed /\ closed

C22_EndsRejectedOrClosed ==
    HandlerOver => (Rejected \/ OpenedAndClosed)

----------------------------------------------------------------------------
(* Two open-stream requests in flight at once, for placeholders of         *)
(* different conversations. The event loop runs one of them at a time and  *)
(* may pass from one to the other wherever a handler awaits; the service   *)
(* (aiService) and the storage are the same objects for both. The channel  *)
(* does not throw here and the storage answers: those paths are those of   *)
(* one request.                                                            *)

\* two conversations, each with a submitted user message and its placeholder
PairStore ==
    << Msg(1, "c1", "user", "hello"), Msg(2, "c1", "assistant", ""),
       Msg(3, "c2", "user", "where is my order"), Msg(4, "c2", "assistant", "") >>

\* req.params.messageId of the first and of the second request
PairMessageIds == <<2, 4>>

\* what the backend may fail with, and what the vector database may answer
PairBackendErrors ==
    {NoError,
     [status |-> 429, code |-> NoCode, message |-> BackendRawMessage],
     [status |-> NoStatus, code |-> "ETIMEDOUT", message |-> BackendRawMessage]}

PairChromaOutcomes ==
    {Unobserved,
     [initOk |-> TRUE, queryOk |-> TRUE, rows |-> <<RowGood>>],
     [initOk |-> TRUE, queryOk |-> TRUE, rows |-> <<RowWeak>>]}

\* the collaborators' answers considered for two requests
PairEnv ==
    /\ chanFaults = 0
    /\ firstThrow \in {"none", "adapter"}
    /\ backendError \in PairBackendErrors
    /\ chroma \in PairChromaOutcomes

InitPair ==
    /\ store = PairStore
    /\ conversations = SeedConversations
    /\ submits = <<>>
    /\ origin = [i \in 1..Len(store) |-> 0]
    /\ openaiApiKey \in {PlaceholderKey, LiveKey}
    /\ isConfigured = HasApiKey(openaiApiKey)
    /\ enableRAG = TRUE
    /\ ragService = TRUE
    /\ conversationHistory = TRUE
    /\ supplied = NotSupplied
    /\ systemPrompt = Constructor(supplied)
    /\ suppliedAtStart = NotSupplied
    /\ previous = NoCall
    /\ chroma = Unobserved
    /\ contextParam = Absent
    /\ pc = "received"
    /\ messageId = 0
    /\ pageContext = <<>>
    /\ conversationId = ""
    /\ userMessage = ""
    /\ headersFlushed = FALSE
    /\ jsonStatus = 0
    /\ records = <<>>
    /\ writeCalls = <<>>
    /\ endCalls = 0
    /\ closed = FALSE
    /\ fullResponse = ""
    /\ caught = ""
    /\ firstThrow = "none"
    /\ chanFaults = 0
    /\ apc = "idle"
    /\ pending = ""
    /\ mockIdx = 0
    /\ hasContent = FALSE
    /\ messages = <<>>
    /\ ragSources = <<>>
    /\ retrieved = FALSE
    /\ backendCalls = 0
    /\ backendOut = <<>>
    /\ backendError = NoError
    /\ clientConnected = TRUE
    /\ pulls = 0
    /\ wroteAfterEnd = FALSE
    /\ idle = Locals
    /\ turn = 1

SwitchSharedSources ==
    /\ idle.pc \notin {"done", "crashed"}
    /\ idle' = Locals
    /\ turn' = 3 - turn
    /\ UNCHANGED ragSources
    /\ messageId' = idle.messageId
    /\ contextParam' = idle.contextParam
    /\ pageContext' = idle.pageContext
    /\ conversationId' = idle.conversationId
    /\ userMessage' = idle.userMessage
    /\ suppliedAtStart' = idle.suppliedAtStart
    /\ headersFlushed' = idle.headersFlushed
    /\ jsonStatus' = idle.jsonStatus
    /\ records' = idle.records
    /\ writeCalls' = idle.writeCalls
    /\ endCalls' = idle.endCalls
    /\ closed' = idle.closed
    /\ chanFaults' = idle.chanFaults
    /\ wroteAfterEnd' = idle.wroteAfterEnd
    /\ apc' = idle.apc
    /\ pending' = idle.pending
    /\ mockIdx' = idle.mockIdx
    /\ hasContent' = idle.hasContent
    /\ messages' = idle.messages
    /\ chroma' = idle.chroma
    /\ retrieved' = idle.retrieved
    /\ backendCalls' = idle.backendCalls
    /\ backendOut' = idle.backendOut
    /\ backendError' = idle.backendError
    /\ pc' = idle.pc
    /\ fullResponse' = idle.fullResponse
    /\ caught' = idle.caught
    /\ firstThrow' = idle.firstThrow
    /\ clientConnected' = idle.clientConnected
    /\ pulls' = idle.pulls
    /\ UNCHANGED <<configVars, sessionVars, previous>>

\* the running request is suspended at an await and the other one runs on:
\* every local of the one is put aside and every local of the other is back
Switch ==
    /\ idle.pc \notin {"done", "crashed"}
    /\ idle' = Locals
    /\ turn' = 3 - turn
    /\ ragSources' = idle.ragSources
    /\ messageId' = idle.messageId
    /\ contextParam' = idle.contextParam
    /\ pageContext' = idle.pageContext
    /\ conversationId' = idle.conversationId
    /\ userMessage' = idle.userMessage
    /\ suppliedAtStart' = idle.suppliedAtStart
    /\ headersFlushed' = idle.headersFlushed
    /\ jsonStatus' = idle.jsonStatus
    /\ records' = idle.records
    /\ writeCalls' = idle.writeCalls
    /\ endCalls' = idle.endCalls
    /\ closed' = idle.closed
    /\ chanFaults' = idle.chanFaults
    /\ wroteAfterEnd' = idle.wroteAfterEnd
    /\ apc' = idle.apc
    /\ pending' = idle.pending
    /\ mockIdx' = idle.mockIdx
    /\ hasContent' = idle.hasContent
    /\ messages' = idle.messages
    /\ chroma' = idle.chroma
    /\ retrieved' = idle.retrieved
    /\ backendCalls' = idle.backendCalls
    /\ backendOut' = idle.backendOut
    /\ backendError' = idle.backendError
    /\ pc' = idle.pc
    /\ fullResponse' = idle.fullResponse
    /\ caught' = idle.caught
    /\ firstThrow' = idle.firstThrow
    /\ clientConnected' = idle.clientConnected
    /\ pulls' = idle.pulls
    /\ UNCHANGED <<configVars, sessionVars, previous>>

NextPair ==
    \/ Switch
    \/ OpenStream(PairMessageIds[turn], Absent)
    \/ GetMessage /\ PairEnv'
    \/ GetRecent /\ PairEnv'
    \/ MockStream
    \/ BuildContextRetrieve /\ PairEnv'
    \/ BuildContextHistory /\ PairEnv'
    \/ CreateCompletion /\ PairEnv'
    \/ StreamFragment
    \/ StreamFails /\ PairEnv'
    \/ StreamEnds
    \/ AfterFallback
    \/ AfterSources
    \/ WriteChunk /\ PairEnv'
    \/ WriteSources /\ PairEnv'
    \/ WriteDone /\ PairEnv'
    \/ End /\ PairEnv'
    \/ InnerCatchWrite /\ PairEnv'
    \/ InnerCatchEnd /\ PairEnv'

SpecPair == InitPair /\ [][NextPair]_vars

----------------------------------------------------------------------------
(* C21: for every interleaving of two open-stream requests on different    *)
(* conversations, what each request has is what it has when it runs alone  *)
(* on its own inputs: its conversation and user message are those of its   *)
(* own placeholder; its prompt is built from its own conversation and its  *)
(* own retrieval answer; its citation list is the citations of its own     *)
(* retrieval answer; and the records on its channel are a prefix of, and   *)
(* at the end of the handler exactly, the sequence for its own backend     *)
(* stream: its chunks (or the canned or fallback chunk), then its own      *)
(* citations if any, then done, or its own error. No step of one request   *)
(* changes anything of the other, and no step changes the service or the   *)
(* storage.                                                                *)

\* the two requests
Requests == {1, 2}

\* what request q holds
View(q) == IF turn = q THEN Locals ELSE idle

\* s is a prefix of t
IsPrefix(s, t) == Len(s) <= Len(t) /\ s = [i \in 1..Len(s) |-> t[i]]

ChunkRecords(contents) == [i \in 1..Len(contents) |-> ChunkRecord(contents[i])]

\* the passages request v's own retrieval call returned
OwnPassages(v) ==
    IF v.retrieved
    THEN retrieveRelevantDocuments(v.chroma, RagMaxResults, RagFloor).docs
    ELSE <<>>

\* the prompt a request builds alone for v's conversation and user message
OwnPrompt(v) ==
    ContextHead(systemPrompt, v.pageContext)
        \o RagSegment(OwnPassages(v))
        \o HistorySegments(getRecentMessages(store, v.conversationId, HistoryLimit))
        \o UserSegment(v.userMessage)

\* the records a request writes alone, given what its own backend stream
\* has delivered so far and how it has ended
OwnRecords(v) ==
    IF ~isConfigured
    THEN ChunkRecords(mockResponses) \o <<DoneRecord>>
    ELSE IF v.apc = "failed"
    THEN ChunkRecords(NonEmptyFragments(v.backendOut))
            \o <<ErrorRecord(MapError(v.backendError))>>
    ELSE (IF NonEmptyFragments(v.backendOut) = <<>>
          THEN <<ChunkRecord(FallbackMessage)>>
          ELSE ChunkRecords(NonEmptyFragments(v.backendOut)))
            \o (IF OwnPassages(v) # <<>>
                THEN <<SourcesRecord(Citations(OwnPassages(v)))>> ELSE <<>>)
            \o <<DoneRecord>>

RunsAsAlone(q) ==
    LET v == View(q)
        own == getMessage(store, PairMessageIds[q])
    IN  /\ v.messageId \in {0, PairMessageIds[q]}
        /\ v.conversationId \in {"", own.conversationId}
        /\ v.headersFlushed =>
              /\ v.conversationId = own.conversationId
              /\ v.userMessage
                    = LastUserMessage(ConversationOf(own.conversationId)).content
        /\ v.ragSources = Citations(OwnPassages(v))
        /\ (isConfigured /\ v.apc \in {"create", "stream", "afterFallback",
                                        "afterSources", "returned"})
              => v.messages = OwnPrompt(v)
        /\ IsPrefix(v.records, OwnRecords(v))
        /\ v.pc = "done" => (v.closed /\ v.records = OwnRecords(v))

====
